---- MODULE Spec2Model ----
(***************************************************************************)
(* A model of the chessbot repository: the ChessBoard wrapper (board.py),  *)
(* the alpha-beta engine ChessEngine (engine.py) and the MinimaxEngine     *)
(* (engine/minimax.py).  The board they drive is a python-chess Board; its *)
(* rules (move generation, push/pop, game-end tests, FEN) are modelled     *)
(* here on the full 8x8 board, square numbers 0..63 as in python-chess     *)
(* (a1 = 0, b1 = 1, ..., h8 = 63).                                         *)
(***************************************************************************)
EXTENDS Integers, Sequences, FiniteSets, TLC

\* Python's None, where the other values are strings
None == "None"
\* None / no such square, where the other values are squares
NoSquare == 0 - 1
\* None, where the other values are Move records
NoneMove == [none |-> TRUE]
\* None, where the other values are strings given by their characters
NoneStr == <<None>>

-----------------------------------------------------------------------------
(* Squares and pieces (chess.SQUARES, chess.Piece)                          *)

BoardWidth == 8
SQUARES == 0 .. (BoardWidth * BoardWidth - 1)
square_file(s) == s % BoardWidth
square_rank(s) == s \div BoardWidth
square(f, r) == r * BoardWidth + f
OnBoard(f, r) == f >= 0 /\ f < BoardWidth /\ r >= 0 /\ r < BoardWidth

A1 == square(0, 0)
C1 == square(2, 0)
D1 == square(3, 0)
E1 == square(4, 0)
F1 == square(5, 0)
G1 == square(6, 0)
H1 == square(7, 0)
A8 == square(0, 7)
C8 == square(2, 7)
D8 == square(3, 7)
E8 == square(4, 7)
F8 == square(5, 7)
G8 == square(6, 7)
H8 == square(7, 7)
\* center_squares = [chess.E4, chess.E5, chess.D4, chess.D5]
center_squares == <<square(4, 3), square(4, 4), square(3, 3), square(3, 4)>>

WHITE == TRUE
BLACK == FALSE

WhiteSymbols == {"P", "N", "B", "R", "Q", "K"}
BlackSymbols == {"p", "n", "b", "r", "q", "k"}
PieceSymbols == WhiteSymbols \cup BlackSymbols

\* piece.color
piece_color(sym) == sym \in WhiteSymbols

\* piece.piece_type, named by the lower-case symbol
piece_type(sym) ==
    CASE sym \in {"P", "p"} -> "p"
      [] sym \in {"N", "n"} -> "n"
      [] sym \in {"B", "b"} -> "b"
      [] sym \in {"R", "r"} -> "r"
      [] sym \in {"Q", "q"} -> "q"
      [] sym \in {"K", "k"} -> "k"

\* chess.Piece(piece_type, color).symbol()
piece_symbol(type, color) ==
    IF color = WHITE
    THEN CASE type = "p" -> "P" [] type = "n" -> "N" [] type = "b" -> "B"
           [] type = "r" -> "R" [] type = "q" -> "Q" [] type = "k" -> "K"
    ELSE type

\* board.piece_at(square): the symbol on the square, or None
piece_at(pieces, s) == IF s \in DOMAIN pieces THEN pieces[s] ELSE None

occupied_co(pieces, color) == {s \in DOMAIN pieces : piece_color(pieces[s]) = color}

\* The squares of pieces, highest square first (chess.scan_reversed)
DescSquares == [i \in 1 .. (BoardWidth * BoardWidth) |-> BoardWidth * BoardWidth - i]
scan_reversed(S) == SelectSeq(DescSquares, LAMBDA s : s \in S)

-----------------------------------------------------------------------------
(* Attacks                                                                  *)

KnightDeltas == {<<1, 2>>, <<2, 1>>, <<2, -1>>, <<1, -2>>,
                 <<-1, -2>>, <<-2, -1>>, <<-2, 1>>, <<-1, 2>>}
KingDeltas == {<<1, 0>>, <<1, 1>>, <<0, 1>>, <<-1, 1>>,
               <<-1, 0>>, <<-1, -1>>, <<0, -1>>, <<1, -1>>}
RookDirs == {<<1, 0>>, <<-1, 0>>, <<0, 1>>, <<0, -1>>}
BishopDirs == {<<1, 1>>, <<1, -1>>, <<-1, 1>>, <<-1, -1>>}

StepAttacks(s, deltas) ==
    {square(square_file(s) + d[1], square_rank(s) + d[2]) :
        d \in {e \in deltas : OnBoard(square_file(s) + e[1], square_rank(s) + e[2])}}

\* The squares a slider reaches from (f, r) in direction (df, dr), up to and
\* including the first occupied square.
RECURSIVE Ray(_, _, _, _, _)
Ray(occ, f, r, df, dr) ==
    IF ~OnBoard(f + df, r + dr) THEN {}
    ELSE LET t == square(f + df, r + dr)
         IN  IF t \in occ THEN {t} ELSE {t} \cup Ray(occ, f + df, r + dr, df, dr)

SlideAttacks(occ, s, dirs) ==
    UNION {Ray(occ, square_file(s), square_rank(s), d[1], d[2]) : d \in dirs}

PawnAttacks(color, s) ==
    StepAttacks(s, IF color = WHITE THEN {<<-1, 1>>, <<1, 1>>} ELSE {<<-1, -1>>, <<1, -1>>})

\* board.attacks_mask(square) for the piece sym standing on s, with occ occupied
attacks_of(sym, s, occ) ==
    LET t == piece_type(sym)
    IN  CASE t = "p" -> PawnAttacks(piece_color(sym), s)
          [] t = "n" -> StepAttacks(s, KnightDeltas)
          [] t = "k" -> StepAttacks(s, KingDeltas)
          [] t = "b" -> SlideAttacks(occ, s, BishopDirs)
          [] t = "r" -> SlideAttacks(occ, s, RookDirs)
          [] t = "q" -> SlideAttacks(occ, s, RookDirs \cup BishopDirs)

\* board.is_attacked_by(color, square)
is_attacked_by(pieces, color, s) ==
    \E a \in DOMAIN pieces :
        /\ piece_color(pieces[a]) = color
        /\ s \in attacks_of(pieces[a], a, DOMAIN pieces)

\* board.king(color): the square of the king (the highest one), or NoSquare
king(pieces, color) ==
    LET ks == {s \in DOMAIN pieces : pieces[s] = piece_symbol("k", color)}
    IN  IF ks = {} THEN NoSquare ELSE CHOOSE s \in ks : \A u \in ks : u <= s

-----------------------------------------------------------------------------
(* Moves (chess.Move) and the position (chess.Board)                        *)
(*                                                                          *)
(* A board is a record                                                      *)
(*   pieces          occupied square -> piece symbol                        *)
(*   turn            WHITE or BLACK                                         *)
(*   castling_rights the rook squares that may still castle (kept clean)    *)
(*   ep_square       the en-passant target square, or NoSquare              *)
(*   halfmove_clock, fullmove_number                                        *)
(*   move_stack      the moves pushed                                       *)
(*   stack           the position saved by each push (Board._stack)         *)

Move(f, t, promo) == [from_square |-> f, to_square |-> t, promotion |-> promo]
\* chess.Move.null()
NullMove == Move(0, 0, None)

\* The part of a board that push saves and pop restores (_BoardState)
board_state(b) ==
    [pieces |-> b.pieces, turn |-> b.turn, castling_rights |-> b.castling_rights,
     ep_square |-> b.ep_square, halfmove_clock |-> b.halfmove_clock,
     fullmove_number |-> b.fullmove_number]

\* board.clean_castling_rights(): rights whose rook stands on its corner
\* while the king of that colour stands on e1 / e8
clean_castling_rights(pieces, rights) ==
    {s \in rights :
        \/ s \in {A1, H1} /\ piece_at(pieces, s) = "R" /\ piece_at(pieces, E1) = "K"
        \/ s \in {A8, H8} /\ piece_at(pieces, s) = "r" /\ piece_at(pieces, E8) = "k"}

Range(seq) == {seq[i] : i \in 1 .. Len(seq)}

\* Concatenation of a sequence of sequences
RECURSIVE Concat(_)
Concat(ss) == IF ss = <<>> THEN <<>> ELSE Head(ss) \o Concat(Tail(ss))

\* The four promotions of a pawn move to the last rank, in generator order
Promotions(f, t) ==
    IF square_rank(t) \in {0, BoardWidth - 1}
    THEN <<Move(f, t, "q"), Move(f, t, "r"), Move(f, t, "b"), Move(f, t, "n")>>
    ELSE <<Move(f, t, None)>>

\* Moves of the pieces on the squares froms (no pawns), from-square and then
\* to-square descending
piece_moves(b, froms) ==
    LET own == occupied_co(b.pieces, b.turn)
        fs == scan_reversed({s \in own \cap froms : piece_type(b.pieces[s]) # "p"})
        targets(s) == scan_reversed(attacks_of(b.pieces[s], s, DOMAIN b.pieces) \ own)
    IN  Concat([i \in 1 .. Len(fs) |->
            LET ts == targets(fs[i])
            IN  [j \in 1 .. Len(ts) |-> Move(fs[i], ts[j], None)]])

\* board.generate_castling_moves(): king side first
castling_moves(b) ==
    LET backrank == IF b.turn = WHITE THEN 0 ELSE BoardWidth - 1
        k == square(4, backrank)
        occ == DOMAIN b.pieces
        them == ~b.turn
        rights == clean_castling_rights(b.pieces, b.castling_rights)
        without_king == [s \in occ \ {k} |-> b.pieces[s]]
        attacked(S) == \E s \in S : is_attacked_by(without_king, them, s)
        h_side == /\ square(7, backrank) \in rights
                  /\ {square(5, backrank), square(6, backrank)} \cap occ = {}
                  /\ ~attacked({k, square(5, backrank), square(6, backrank)})
        a_side == /\ square(0, backrank) \in rights
                  /\ {square(1, backrank), square(2, backrank), square(3, backrank)} \cap occ = {}
                  /\ ~attacked({k, square(3, backrank), square(2, backrank)})
    IN  (IF h_side THEN <<Move(k, square(6, backrank), None)>> ELSE <<>>)
        \o (IF a_side THEN <<Move(k, square(2, backrank), None)>> ELSE <<>>)

\* board.generate_pseudo_legal_ep()
ep_moves(b) ==
    LET occ == DOMAIN b.pieces
        pawns == {s \in occupied_co(b.pieces, b.turn) : piece_type(b.pieces[s]) = "p"}
        ep_rank == IF b.turn = WHITE THEN 4 ELSE 3
        capturers == IF b.ep_square = NoSquare \/ b.ep_square \in occ THEN {}
                     ELSE {s \in pawns : /\ square_rank(s) = ep_rank
                                        /\ s \in PawnAttacks(~b.turn, b.ep_square)}
        cs == scan_reversed(capturers)
    IN  [i \in 1 .. Len(cs) |-> Move(cs[i], b.ep_square, None)]

\* Pawn captures, single and double advances, en passant, in generator order
pawn_moves(b) ==
    LET occ == DOMAIN b.pieces
        own == occupied_co(b.pieces, b.turn)
        enemy == occ \ own
        pawns == {s \in own : piece_type(b.pieces[s]) = "p"}
        up == IF b.turn = WHITE THEN BoardWidth ELSE -BoardWidth
        ps == scan_reversed(pawns)
        captures == Concat([i \in 1 .. Len(ps) |->
            LET ts == scan_reversed(PawnAttacks(b.turn, ps[i]) \cap enemy)
            IN  Concat([j \in 1 .. Len(ts) |-> Promotions(ps[i], ts[j])])])
        single == {t \in SQUARES \ occ : (t - up) \in pawns}
        ss == scan_reversed(single)
        singles == Concat([i \in 1 .. Len(ss) |-> Promotions(ss[i] - up, ss[i])])
        double_ranks == IF b.turn = WHITE THEN {2, 3} ELSE {5, 4}
        double == {t \in SQUARES \ occ : (t - up) \in single /\ square_rank(t) \in double_ranks}
        ds == scan_reversed(double)
        doubles == [i \in 1 .. Len(ds) |-> Move(ds[i] - 2 * up, ds[i], None)]
    IN  IF pawns = {} THEN <<>> ELSE captures \o singles \o doubles \o ep_moves(b)

\* board.generate_pseudo_legal_moves()
pseudo_legal_moves(b) == piece_moves(b, SQUARES) \o castling_moves(b) \o pawn_moves(b)

\* The pieces after the (pseudo-legal) move m of the side to move
pieces_after(b, m) ==
    LET sym == b.pieces[m.from_square]
        type == piece_type(sym)
        backrank == IF b.turn = WHITE THEN 0 ELSE BoardWidth - 1
        castling == type = "k" /\ (square_file(m.to_square) - square_file(m.from_square)) \in {2, -2}
        a_side == square_file(m.to_square) < square_file(m.from_square)
        en_passant == /\ type = "p"
                      /\ m.to_square = b.ep_square
                      /\ (m.to_square - m.from_square) \in {7, 9, -7, -9}
                      /\ m.to_square \notin DOMAIN b.pieces
        down == IF b.turn = WHITE THEN -BoardWidth ELSE BoardWidth
        placed == IF m.promotion # None THEN piece_symbol(m.promotion, b.turn) ELSE sym
        rook_from == square(IF a_side THEN 0 ELSE 7, backrank)
        rook_to == square(IF a_side THEN 3 ELSE 5, backrank)
        removed == {m.from_square}
                   \cup (IF castling THEN {rook_from} ELSE {})
                   \cup (IF en_passant THEN {b.ep_square + down} ELSE {})
        dom == ((DOMAIN b.pieces) \ removed) \cup {m.to_square}
                   \cup (IF castling THEN {rook_to} ELSE {})
    IN  [s \in dom |-> IF s = m.to_square THEN placed
                       ELSE IF castling /\ s = rook_to THEN piece_symbol("r", b.turn)
                       ELSE b.pieces[s]]

\* not board.is_into_check(move): the mover's king is not attacked afterwards
is_safe(b, m) ==
    LET after == pieces_after(b, m)
        k == king(after, b.turn)
    IN  k = NoSquare \/ ~is_attacked_by(after, ~b.turn, k)

\* board.is_check()
is_check(b) ==
    LET k == king(b.pieces, b.turn)
    IN  k # NoSquare /\ is_attacked_by(b.pieces, ~b.turn, k)

\* board.generate_legal_moves(), in generator order.
\* In check the king's moves come first (_generate_evasions).
generate_legal_moves(b) ==
    LET k == king(b.pieces, b.turn)
    IN  IF k = NoSquare THEN pseudo_legal_moves(b)
        ELSE IF is_attacked_by(b.pieces, ~b.turn, k)
        THEN SelectSeq(piece_moves(b, {k}) \o piece_moves(b, SQUARES \ {k}) \o pawn_moves(b),
                       LAMBDA m : is_safe(b, m))
        ELSE SelectSeq(pseudo_legal_moves(b), LAMBDA m : is_safe(b, m))

\* board._from_chess960(): castling given as "king takes its rook" (e1h1) is
\* the king's two-square move (e1g1)
from_chess960(b, m) ==
    IF m.promotion = None /\ m.from_square = E1 /\ piece_at(b.pieces, E1) \in {"K", "k"}
    THEN IF m.to_square = H1 THEN Move(E1, G1, None)
         ELSE IF m.to_square = A1 THEN Move(E1, C1, None) ELSE m
    ELSE IF m.promotion = None /\ m.from_square = E8 /\ piece_at(b.pieces, E8) \in {"K", "k"}
    THEN IF m.to_square = H8 THEN Move(E8, G8, None)
         ELSE IF m.to_square = A8 THEN Move(E8, C8, None) ELSE m
    ELSE m

\* board.is_pseudo_legal(move)
is_pseudo_legal(b, m) ==
    LET piece == piece_at(b.pieces, m.from_square)
        last_rank == IF b.turn = WHITE THEN BoardWidth - 1 ELSE 0
    IN  /\ m # NullMove
        /\ piece # None
        /\ piece_color(piece) = b.turn
        /\ m.promotion # None =>
              piece_type(piece) = "p" /\ square_rank(m.to_square) = last_rank
        /\ \/ piece_type(piece) = "k" /\ from_chess960(b, m) \in Range(castling_moves(b))
           \/ /\ m.to_square \notin occupied_co(b.pieces, b.turn)
              /\ IF piece_type(piece) = "p" THEN m \in Range(pawn_moves(b))
                 ELSE m.to_square \in attacks_of(piece, m.from_square, DOMAIN b.pieces)

\* board.is_legal(move), the test behind "move in board.legal_moves"
is_legal(b, m) == is_pseudo_legal(b, m) /\ is_safe(b, from_chess960(b, m))

\* board.push(move), for the null move or a pseudo-legal move
board_push(b, m0) ==
    LET m == from_chess960(b, m0)
        saved == board_state(b)
        base == [b EXCEPT !.move_stack = Append(@, m),
                          !.stack = Append(@, saved),
                          !.ep_square = NoSquare,
                          !.fullmove_number = IF b.turn = BLACK THEN @ + 1 ELSE @,
                          !.turn = ~b.turn]
    IN  IF m = NullMove
        THEN [base EXCEPT !.halfmove_clock = b.halfmove_clock + 1,
                          !.castling_rights = clean_castling_rights(b.pieces, b.castling_rights)]
        ELSE LET sym == b.pieces[m.from_square]
                 zeroing == piece_type(sym) = "p" \/ m.to_square \in DOMAIN b.pieces
                 up == IF b.turn = WHITE THEN BoardWidth ELSE -BoardWidth
                 start_rank == IF b.turn = WHITE THEN 1 ELSE BoardWidth - 2
                 double == /\ piece_type(sym) = "p"
                           /\ m.to_square - m.from_square = 2 * up
                           /\ square_rank(m.from_square) = start_rank
                 after == pieces_after(b, m)
                 backrank == IF b.turn = WHITE THEN 0 ELSE BoardWidth - 1
                 kept == {s \in b.castling_rights :
                            /\ s \notin {m.from_square, m.to_square}
                            /\ ~(piece_type(sym) = "k" /\ square_rank(s) = backrank)}
             IN  [base EXCEPT !.pieces = after,
                              !.halfmove_clock = IF zeroing THEN 0 ELSE b.halfmove_clock + 1,
                              !.ep_square = IF double THEN m.from_square + up ELSE NoSquare,
                              !.castling_rights = clean_castling_rights(after, kept)]

\* A pop that takes back the pieces and the side to move only
board_pop_pieces_only(b) ==
    LET s == b.stack[Len(b.stack)]
    IN  [b EXCEPT !.pieces = s.pieces, !.turn = s.turn,
                  !.move_stack = SubSeq(b.move_stack, 1, Len(b.move_stack) - 1),
                  !.stack = SubSeq(b.stack, 1, Len(b.stack) - 1)]

\* board.pop(): restores the position saved by the last push
board_pop(b) ==
    LET s == b.stack[Len(b.stack)]
    IN  [pieces |-> s.pieces, turn |-> s.turn, castling_rights |-> s.castling_rights,
         ep_square |-> s.ep_square, halfmove_clock |-> s.halfmove_clock,
         fullmove_number |-> s.fullmove_number,
         move_stack |-> SubSeq(b.move_stack, 1, Len(b.move_stack) - 1),
         stack |-> SubSeq(b.stack, 1, Len(b.stack) - 1)]

-----------------------------------------------------------------------------
(* FEN strings and UCI move strings.  A string is modelled by its           *)
(* characters: a FEN is the sequence of its whitespace-separated parts,     *)
(* each part a sequence of one-character strings; a move string is a        *)
(* sequence of one-character strings.                                       *)

FILE_NAMES == <<"a", "b", "c", "d", "e", "f", "g", "h">>
UPPER_FILE_NAMES == <<"A", "B", "C", "D", "E", "F", "G", "H">>
RANK_NAMES == <<"1", "2", "3", "4", "5", "6", "7", "8">>
Digits == <<"0", "1", "2", "3", "4", "5", "6", "7", "8", "9">>

IndexOf(seq, c) == CHOOSE i \in 1 .. Len(seq) : seq[i] = c
DigitValue(c) == IndexOf(Digits, c) - 1

\* str(n) for n >= 0
RECURSIVE FormatInt(_)
FormatInt(n) == IF n < 10 THEN <<Digits[n + 1]>>
                ELSE FormatInt(n \div 10) \o <<Digits[(n % 10) + 1]>>

RECURSIVE DigitsValue(_, _)
DigitsValue(cs, acc) == IF cs = <<>> THEN acc
                        ELSE DigitsValue(Tail(cs), acc * 10 + DigitValue(Head(cs)))

\* int(part): an optional sign and decimal digits; ok is FALSE where int()
\* raises ValueError
ParseInt(cs) ==
    LET signed == cs # <<>> /\ Head(cs) \in {"-", "+"}
        ds == IF signed THEN Tail(cs) ELSE cs
    IN  IF ds = <<>> \/ \E i \in 1 .. Len(ds) : ds[i] \notin Range(Digits)
        THEN [ok |-> FALSE, value |-> 0]
        ELSE [ok |-> TRUE,
              value |-> IF signed /\ Head(cs) = "-" THEN 0 - DigitsValue(ds, 0)
                        ELSE DigitsValue(ds, 0)]

\* part.split(sep)
RECURSIVE Split(_, _)
Split(cs, sep) ==
    IF \A i \in 1 .. Len(cs) : cs[i] # sep THEN <<cs>>
    ELSE LET k == CHOOSE i \in 1 .. Len(cs) : cs[i] = sep /\ \A j \in 1 .. (i - 1) : cs[j] # sep
         IN  <<SubSeq(cs, 1, k - 1)>> \o Split(SubSeq(cs, k + 1, Len(cs)), sep)

\* The row check of Board._set_board_fen: digits 1..8 and piece symbols
\* adding up to eight squares, no two digits in a row
RECURSIVE RowSum(_)
RowSum(row) ==
    IF row = <<>> THEN 0
    ELSE (IF Head(row) \in Range(RANK_NAMES) THEN DigitValue(Head(row)) ELSE 1) + RowSum(Tail(row))

RowValid(row) ==
    /\ \A i \in 1 .. Len(row) : row[i] \in Range(RANK_NAMES) \cup PieceSymbols
    /\ \A i \in 1 .. (Len(row) - 1) : ~(row[i] \in Range(RANK_NAMES) /\ row[i + 1] \in Range(RANK_NAMES))
    /\ RowSum(row) = BoardWidth

\* The pieces of one row (rank r), as <<square, symbol>> pairs
RECURSIVE RowPieces(_, _, _)
RowPieces(row, f, r) ==
    IF row = <<>> THEN {}
    ELSE IF Head(row) \in Range(RANK_NAMES)
         THEN RowPieces(Tail(row), f + DigitValue(Head(row)), r)
         ELSE {<<square(f, r), Head(row)>>} \cup RowPieces(Tail(row), f + 1, r)

\* Whether Board._set_board_fen(part) accepts the part (else ValueError)
board_fen_valid(part) ==
    LET rows == Split(part, "/")
    IN  Len(rows) = BoardWidth /\ \A i \in 1 .. Len(rows) : RowValid(rows[i])

\* Board._set_board_fen(part): the pieces of an accepted part, rank 8 first
parse_board_fen(part) ==
    LET rows == Split(part, "/")
        pairs == UNION {RowPieces(rows[i], 0, BoardWidth - i) : i \in 1 .. BoardWidth}
    IN  [s \in {p[1] : p \in pairs} |-> (CHOOSE p \in pairs : p[1] = s)[2]]

\* FEN_CASTLING_REGEX: "-" or up to two of KQA-H followed by up to two of kqa-h
CastlingPartValid(part) ==
    LET upper == {"K", "Q", "A", "B", "C", "D", "E", "F", "G", "H"}
        lower == {"k", "q", "a", "b", "c", "d", "e", "f", "g", "h"}
    IN  \/ part = <<"-">>
        \/ \E n \in 0 .. 2 :
             /\ n <= Len(part) /\ Len(part) - n <= 2
             /\ \A i \in 1 .. n : part[i] \in upper
             /\ \A i \in (n + 1) .. Len(part) : part[i] \in lower

\* Board._set_castling_fen(part) followed by clean_castling_rights()
parse_castling_fen(pieces, part) ==
    LET right(flag) ==
            LET color == flag \in {"K", "Q", "A", "B", "C", "D", "E", "F", "G", "H"}
                backrank == IF color = WHITE THEN 0 ELSE BoardWidth - 1
                rooks == {s \in DOMAIN pieces : /\ pieces[s] = piece_symbol("r", color)
                                                /\ square_rank(s) = backrank}
                k == king(pieces, color)
                outer(leftmost) == CHOOSE s \in rooks :
                                     \A u \in rooks : IF leftmost THEN s <= u ELSE u <= s
            IN  CASE flag \in {"Q", "q"} ->
                       IF k # NoSquare /\ rooks # {} /\ outer(TRUE) < k
                       THEN outer(TRUE) ELSE square(0, backrank)
                  [] flag \in {"K", "k"} ->
                       IF k # NoSquare /\ rooks # {} /\ k < outer(FALSE)
                       THEN outer(FALSE) ELSE square(BoardWidth - 1, backrank)
                  [] OTHER ->
                       square((IF color = WHITE THEN IndexOf(UPPER_FILE_NAMES, flag)
                               ELSE IndexOf(FILE_NAMES, flag)) - 1, backrank)
        flags == IF part = <<"-">> THEN {} ELSE Range(part)
    IN  clean_castling_rights(pieces, {right(flag) : flag \in flags})

\* SQUARE_NAMES.index(name): the square named by two characters, NoSquare
\* where it raises ValueError
parse_square(cs) ==
    IF Len(cs) = 2 /\ cs[1] \in Range(FILE_NAMES) /\ cs[2] \in Range(RANK_NAMES)
    THEN square(IndexOf(FILE_NAMES, cs[1]) - 1, IndexOf(RANK_NAMES, cs[2]) - 1)
    ELSE NoSquare

\* chess.SQUARE_NAMES[square]
square_name(s) == <<FILE_NAMES[square_file(s) + 1], RANK_NAMES[square_rank(s) + 1]>>

EmptyStack == <<>>

\* Whether chess.Board(fen) accepts the FEN; it raises ValueError otherwise
\* (Board.set_fen: a bad turn, castling, en-passant or counter part, a
\* negative counter, more than six parts, a bad board part).
fen_valid(fen) ==
    LET n == Len(fen)
    IN  /\ n >= 1 /\ n <= 6
        /\ n < 2 \/ fen[2] \in {<<"w">>, <<"b">>}
        /\ n < 3 \/ CastlingPartValid(fen[3])
        /\ n < 4 \/ fen[4] = <<"-">> \/ parse_square(fen[4]) # NoSquare
        /\ n < 5 \/ (ParseInt(fen[5]).ok /\ ParseInt(fen[5]).value >= 0)
        /\ n < 6 \/ (ParseInt(fen[6]).ok /\ ParseInt(fen[6]).value >= 0)
        /\ board_fen_valid(fen[1])

\* chess.Board(fen) for an accepted FEN: Board.set_fen(fen) on a fresh board.
\* The parts that are missing take their defaults.
Board(fen) ==
    LET n == Len(fen)
        pieces == parse_board_fen(fen[1])
        full == IF n < 6 THEN 1 ELSE ParseInt(fen[6]).value
    IN  [pieces |-> pieces,
         turn |-> (n < 2 \/ fen[2] = <<"w">>),
         castling_rights |-> parse_castling_fen(pieces, IF n < 3 THEN <<"-">> ELSE fen[3]),
         ep_square |-> IF n < 4 \/ fen[4] = <<"-">> THEN NoSquare ELSE parse_square(fen[4]),
         halfmove_clock |-> IF n < 5 THEN 0 ELSE ParseInt(fen[5]).value,
         fullmove_number |-> IF full < 1 THEN 1 ELSE full,
         move_stack |-> EmptyStack,
         stack |-> EmptyStack]

\* One row of board.board_fen(): rank r from file f on, empty holding the
\* number of empty squares counted so far
RECURSIVE FormatRow(_, _, _, _)
FormatRow(pieces, f, r, empty) ==
    LET flush == IF empty > 0 THEN <<Digits[empty + 1]>> ELSE <<>>
    IN  IF f = BoardWidth THEN flush
        ELSE IF square(f, r) \in DOMAIN pieces
        THEN flush \o <<pieces[square(f, r)]>> \o FormatRow(pieces, f + 1, r, 0)
        ELSE FormatRow(pieces, f + 1, r, empty + 1)

\* board.board_fen(): rank 8 first, rows joined by "/"
RECURSIVE FormatRows(_, _)
FormatRows(pieces, r) ==
    IF r = 0 THEN FormatRow(pieces, 0, 0, 0)
    ELSE FormatRow(pieces, 0, r, 0) \o <<"/">> \o FormatRows(pieces, r - 1)

\* board.castling_xfen()
castling_xfen(b) ==
    LET rights == clean_castling_rights(b.pieces, b.castling_rights)
        flags == (IF H1 \in rights THEN <<"K">> ELSE <<>>)
                 \o (IF A1 \in rights THEN <<"Q">> ELSE <<>>)
                 \o (IF H8 \in rights THEN <<"k">> ELSE <<>>)
                 \o (IF A8 \in rights THEN <<"q">> ELSE <<>>)
    IN  IF flags = <<>> THEN <<"-">> ELSE flags

\* board.has_legal_en_passant()
has_legal_en_passant(b) ==
    b.ep_square # NoSquare /\ \E m \in Range(ep_moves(b)) : is_safe(b, m)

\* board.fen(): the six parts
fen_of(b) ==
    << FormatRows(b.pieces, BoardWidth - 1),
       IF b.turn = WHITE THEN <<"w">> ELSE <<"b">>,
       castling_xfen(b),
       IF has_legal_en_passant(b) THEN square_name(b.ep_square) ELSE <<"-">>,
       FormatInt(b.halfmove_clock),
       FormatInt(b.fullmove_number) >>

\* Whether chess.Move.from_uci(uci) returns a move; it raises ValueError
\* (InvalidMoveError) otherwise
uci_valid(uci) ==
    \/ uci = <<"0", "0", "0", "0">>
    \/ /\ Len(uci) \in {4, 5}
       /\ parse_square(SubSeq(uci, 1, 2)) # NoSquare
       /\ parse_square(SubSeq(uci, 3, 4)) # NoSquare
       /\ Len(uci) = 5 => uci[5] \in BlackSymbols
       /\ parse_square(SubSeq(uci, 1, 2)) # parse_square(SubSeq(uci, 3, 4))

\* chess.Move.from_uci(uci) for a string it accepts
from_uci(uci) ==
    IF uci = <<"0", "0", "0", "0">> THEN NullMove
    ELSE Move(parse_square(SubSeq(uci, 1, 2)), parse_square(SubSeq(uci, 3, 4)),
              IF Len(uci) = 5 THEN uci[5] ELSE None)

\* move.uci()
uci_of(m) ==
    IF m = NullMove THEN <<"0", "0", "0", "0">>
    ELSE square_name(m.from_square) \o square_name(m.to_square)
         \o (IF m.promotion = None THEN <<>> ELSE <<m.promotion>>)

-----------------------------------------------------------------------------
(* Game-end tests of chess.Board                                            *)

\* board.is_checkmate()
is_checkmate(b) == is_check(b) /\ generate_legal_moves(b) = <<>>

\* board.is_stalemate()
is_stalemate(b) == ~is_check(b) /\ generate_legal_moves(b) = <<>>

\* Dark squares have an even file + rank (a1 is dark)
IsDark(s) == (square_file(s) + square_rank(s)) % 2 = 0

\* board.has_insufficient_material(color)
has_insufficient_material(pieces, color) ==
    LET own == occupied_co(pieces, color)
        enemy == (DOMAIN pieces) \ own
        of(S, types) == {s \in S : piece_type(pieces[s]) \in types}
        bishops == of(DOMAIN pieces, {"b"})
    IN  IF of(own, {"p", "r", "q"}) # {} THEN FALSE
        ELSE IF of(own, {"n"}) # {}
        THEN Cardinality(own) <= 2 /\ of(enemy, {"p", "n", "b", "r"}) = {}
        ELSE IF of(own, {"b"}) # {}
        THEN /\ (\A s \in bishops : ~IsDark(s)) \/ (\A s \in bishops : IsDark(s))
             /\ of(DOMAIN pieces, {"p", "n"}) = {}
        ELSE TRUE

\* board.is_insufficient_material()
is_insufficient_material(b) ==
    has_insufficient_material(b.pieces, WHITE) /\ has_insufficient_material(b.pieces, BLACK)

\* board.is_seventyfive_moves()
is_seventyfive_moves(b) == b.halfmove_clock >= 150 /\ generate_legal_moves(b) # <<>>

\* board._transposition_key() of a board or of a saved position
transposition_key(p) ==
    <<p.pieces, p.turn, clean_castling_rights(p.pieces, p.castling_rights),
      IF has_legal_en_passant(p) THEN p.ep_square ELSE NoSquare>>

\* board.is_fivefold_repetition(): the position has occurred five times
is_fivefold_repetition(b) ==
    Cardinality({i \in 1 .. Len(b.stack) :
                    transposition_key(b.stack[i]) = transposition_key(b)}) + 1 >= 5

\* board.is_game_over(): board.outcome() is not None
board_is_game_over(b) ==
    LET moves == generate_legal_moves(b)
    IN  \/ moves = <<>>
        \/ is_insufficient_material(b)
        \/ b.halfmove_clock >= 150
        \/ is_fivefold_repetition(b)

-----------------------------------------------------------------------------
(* An abstract game as a board.  The search of ChessEngine reads its board  *)
(* only through legal_moves, push, pop, is_game_over and the evaluator, so  *)
(* it also runs on a finite game tree: a node is [eval, kids], eval being   *)
(* what the evaluator returns at the node and kids the positions its moves  *)
(* lead to, in enumeration order; a node without kids is game-over.         *)

IsTree(b) == "node" \in DOMAIN b
TreeBoard(t) == [node |-> t, move_stack |-> EmptyStack, stack |-> EmptyStack]
KidMove(i) == [kid |-> i]

\* list(board.legal_moves)
legal_moves(b) ==
    IF IsTree(b) THEN [i \in 1 .. Len(b.node.kids) |-> KidMove(i)]
    ELSE generate_legal_moves(b)

\* board.push(move)
push(b, m) ==
    IF IsTree(b)
    THEN [node |-> b.node.kids[m.kid],
          move_stack |-> Append(b.move_stack, m),
          stack |-> Append(b.stack, b.node)]
    ELSE board_push(b, m)

\* board.pop()
pop(b) ==
    IF IsTree(b)
    THEN [node |-> b.stack[Len(b.stack)],
          move_stack |-> SubSeq(b.move_stack, 1, Len(b.move_stack) - 1),
          stack |-> SubSeq(b.stack, 1, Len(b.stack) - 1)]
    ELSE board_pop(b)

\* board.is_game_over()
is_game_over(b) == IF IsTree(b) THEN b.node.kids = <<>> ELSE board_is_game_over(b)

-----------------------------------------------------------------------------
(* ChessEngine (engine.py)                                                  *)

PIECE_VALUES == [p |-> 100, n |-> 320, b |-> 330, r |-> 500, q |-> 900, k |-> 20000]

\* float("inf"): above every evaluation
Infinity == 1000000

Max(a, b) == IF a >= b THEN a ELSE b
Min(a, b) == IF a <= b THEN a ELSE b

\* The material loop of evaluate_position over the squares S: + value for a
\* White piece, - value for a Black piece
RECURSIVE material_sum(_, _)
material_sum(pieces, S) ==
    IF S = {} THEN 0
    ELSE LET s == CHOOSE x \in S : TRUE
             value == PIECE_VALUES[piece_type(pieces[s])]
         IN  (IF piece_color(pieces[s]) = WHITE THEN value ELSE 0 - value)
             + material_sum(pieces, S \ {s})

material_score(pieces) == material_sum(pieces, DOMAIN pieces)

\* The positional factors with the null move left on the board
evaluate_positional_factors_no_pop(b) ==
    LET center(pieces, i) ==
            IF piece_at(pieces, center_squares[i]) = None THEN 0
            ELSE IF piece_color(piece_at(pieces, center_squares[i])) = WHITE
            THEN 20 ELSE 0 - 20
        pushed(white_moves, b1) ==
            [score |-> (white_moves - Len(legal_moves(b1))) * 10
                       + center(b1.pieces, 1) + center(b1.pieces, 2)
                       + center(b1.pieces, 3) + center(b1.pieces, 4),
             board |-> b1]
    IN  pushed(Len(legal_moves(b)), push(b, NullMove))

\* ChessEngine._evaluate_positional_factors(board): the score, and the board
\* as the call leaves it (a null move is pushed and popped)
evaluate_positional_factors(b) ==
    LET center(pieces, i) ==
            IF piece_at(pieces, center_squares[i]) = None THEN 0
            ELSE IF piece_color(piece_at(pieces, center_squares[i])) = WHITE
            THEN 20 ELSE 0 - 20
        popped(mobility, b2) ==
            [score |-> mobility + center(b2.pieces, 1) + center(b2.pieces, 2)
                       + center(b2.pieces, 3) + center(b2.pieces, 4),
             board |-> b2]
        pushed(white_moves, b1) ==
            popped((white_moves - Len(legal_moves(b1))) * 10, pop(b1))
    IN  pushed(Len(legal_moves(b)), push(b, NullMove))

\* The evaluation with the checkmate score of the wrong sign
evaluate_position_mate_sign(b) ==
    IF IsTree(b) THEN [score |-> b.node.eval, board |-> b]
    ELSE IF is_checkmate(b)
    THEN [score |-> IF b.turn THEN 10000 ELSE 0 - 10000, board |-> b]
    ELSE IF is_stalemate(b) \/ is_insufficient_material(b)
    THEN [score |-> 0, board |-> b]
    ELSE LET total(positional) ==
                 [score |-> material_score(b.pieces) + positional.score,
                  board |-> positional.board]
         IN  total(evaluate_positional_factors(b))

\* The evaluation without the test for a drawn position
evaluate_position_no_draw(b) ==
    IF IsTree(b) THEN [score |-> b.node.eval, board |-> b]
    ELSE IF is_checkmate(b)
    THEN [score |-> IF b.turn THEN 0 - 10000 ELSE 10000, board |-> b]
    ELSE LET total(positional) ==
                 [score |-> material_score(b.pieces) + positional.score,
                  board |-> positional.board]
         IN  total(evaluate_positional_factors(b))

\* ChessEngine.evaluate_position(board): the score, and the board as the
\* call leaves it.  On a game tree the evaluator is the node's eval.
evaluate_position(b) ==
    IF IsTree(b) THEN [score |-> b.node.eval, board |-> b]
    ELSE IF is_checkmate(b)
    THEN [score |-> IF b.turn THEN 0 - 10000 ELSE 10000, board |-> b]
    ELSE IF is_stalemate(b) \/ is_insufficient_material(b)
    THEN [score |-> 0, board |-> b]
    ELSE LET total(positional) ==
                 [score |-> material_score(b.pieces) + positional.score,
                  board |-> positional.board]
         IN  total(evaluate_positional_factors(b))

\* ChessEngine.minimax(board, depth, alpha, beta, maximizing): the pair
\* (eval, move), the board as the call leaves it, and the number of
\* positions evaluated (a count kept by the model only).
RECURSIVE minimax(_, _, _, _, _)
RECURSIVE maximize(_, _, _, _, _, _, _, _, _)
RECURSIVE minimize(_, _, _, _, _, _, _, _, _)

\* The maximizing loop with the cutoff tested before the move's score is
\* recorded
RECURSIVE maximize_cut_first(_, _, _, _, _, _, _, _, _)
maximize_cut_first(b, moves, i, depth, alpha, beta, max_eval, best_move, nodes) ==
    IF i > Len(moves)
    THEN [eval |-> max_eval, move |-> best_move, board |-> b, nodes |-> nodes]
    ELSE LET searched(r, b2) ==
                 IF beta <= Max(alpha, r.eval)
                 THEN [eval |-> max_eval, move |-> best_move, board |-> b2,
                       nodes |-> nodes + r.nodes]
                 ELSE maximize_cut_first(b2, moves, i + 1, depth, Max(alpha, r.eval), beta,
                                         IF r.eval > max_eval THEN r.eval ELSE max_eval,
                                         IF r.eval > max_eval THEN moves[i] ELSE best_move,
                                         nodes + r.nodes)
             popped(r) == searched(r, pop(r.board))
         IN  popped(minimax(push(b, moves[i]), depth - 1, alpha, beta, FALSE))

\* The maximizing loop that leaves at the cutoff before the move is undone
RECURSIVE maximize_cut_before_pop(_, _, _, _, _, _, _, _, _)
maximize_cut_before_pop(b, moves, i, depth, alpha, beta, max_eval, best_move, nodes) ==
    IF i > Len(moves)
    THEN [eval |-> max_eval, move |-> best_move, board |-> b, nodes |-> nodes]
    ELSE LET searched(r) ==
                 LET improved == r.eval > max_eval
                     new_max == IF improved THEN r.eval ELSE max_eval
                     new_best == IF improved THEN moves[i] ELSE best_move
                     new_alpha == Max(alpha, r.eval)
                 IN  IF beta <= new_alpha
                     THEN [eval |-> new_max, move |-> new_best, board |-> r.board,
                           nodes |-> nodes + r.nodes]
                     ELSE maximize_cut_before_pop(pop(r.board), moves, i + 1, depth,
                                                  new_alpha, beta, new_max, new_best,
                                                  nodes + r.nodes)
         IN  searched(minimax(push(b, moves[i]), depth - 1, alpha, beta, FALSE))

\* The maximizing loop with a move replacing the best one when it is as
\* good: the last of the best moves is kept
RECURSIVE maximize_keep_last(_, _, _, _, _, _, _, _, _)
maximize_keep_last(b, moves, i, depth, alpha, beta, max_eval, best_move, nodes) ==
    IF i > Len(moves)
    THEN [eval |-> max_eval, move |-> best_move, board |-> b, nodes |-> nodes]
    ELSE LET searched(r, b2) ==
                 LET improved == r.eval >= max_eval
                     new_max == IF improved THEN r.eval ELSE max_eval
                     new_best == IF improved THEN moves[i] ELSE best_move
                     new_alpha == Max(alpha, r.eval)
                 IN  IF beta <= new_alpha
                     THEN [eval |-> new_max, move |-> new_best, board |-> b2,
                           nodes |-> nodes + r.nodes]
                     ELSE maximize_keep_last(b2, moves, i + 1, depth, new_alpha, beta,
                                             new_max, new_best, nodes + r.nodes)
             popped(r) == searched(r, pop(r.board))
         IN  popped(minimax(push(b, moves[i]), depth - 1, alpha, beta, FALSE))

\* The maximizing loop from its i-th move on
maximize(b, moves, i, depth, alpha, beta, max_eval, best_move, nodes) ==
    IF i > Len(moves)
    THEN [eval |-> max_eval, move |-> best_move, board |-> b, nodes |-> nodes]
    ELSE LET searched(r, b2) ==
                 LET improved == r.eval > max_eval
                     new_max == IF improved THEN r.eval ELSE max_eval
                     new_best == IF improved THEN moves[i] ELSE best_move
                     new_alpha == Max(alpha, r.eval)
                 IN  IF beta <= new_alpha
                     THEN [eval |-> new_max, move |-> new_best, board |-> b2,
                           nodes |-> nodes + r.nodes]
                     ELSE maximize(b2, moves, i + 1, depth, new_alpha, beta,
                                   new_max, new_best, nodes + r.nodes)
             popped(r) == searched(r, pop(r.board))
         IN  popped(minimax(push(b, moves[i]), depth - 1, alpha, beta, FALSE))

\* The minimizing loop from its i-th move on
minimize(b, moves, i, depth, alpha, beta, min_eval, best_move, nodes) ==
    IF i > Len(moves)
    THEN [eval |-> min_eval, move |-> best_move, board |-> b, nodes |-> nodes]
    ELSE LET searched(r, b2) ==
                 LET improved == r.eval < min_eval
                     new_min == IF improved THEN r.eval ELSE min_eval
                     new_best == IF improved THEN moves[i] ELSE best_move
                     new_beta == Min(beta, r.eval)
                 IN  IF new_beta <= alpha
                     THEN [eval |-> new_min, move |-> new_best, board |-> b2,
                           nodes |-> nodes + r.nodes]
                     ELSE minimize(b2, moves, i + 1, depth, alpha, new_beta,
                                   new_min, new_best, nodes + r.nodes)
             popped(r) == searched(r, pop(r.board))
         IN  popped(minimax(push(b, moves[i]), depth - 1, alpha, beta, TRUE))

\* A minimax whose base case is depth 0 only
minimax_depth_only(b, depth, alpha, beta, maximizing) ==
    IF depth = 0
    THEN LET leaf(e) == [eval |-> e.score, move |-> NoneMove, board |-> e.board,
                              nodes |-> 1]
         IN  leaf(evaluate_position(b))
    ELSE IF maximizing
    THEN maximize(b, legal_moves(b), 1, depth, alpha, beta, 0 - Infinity, NoneMove, 0)
    ELSE minimize(b, legal_moves(b), 1, depth, alpha, beta, Infinity, NoneMove, 0)

minimax(b, depth, alpha, beta, maximizing) ==
    IF depth = 0 \/ is_game_over(b)
    THEN LET leaf(e) == [eval |-> e.score, move |-> NoneMove, board |-> e.board,
                              nodes |-> 1]
         IN  leaf(evaluate_position(b))
    ELSE IF maximizing
    THEN maximize(b, legal_moves(b), 1, depth, alpha, beta, 0 - Infinity, NoneMove, 0)
    ELSE minimize(b, legal_moves(b), 1, depth, alpha, beta, Infinity, NoneMove, 0)

\* A get_best_move without the fallback: None when the search gives no move
get_best_move_no_fallback(b, depth) ==
    IF is_game_over(b) THEN {[move |-> NoneStr, board |-> b]}
    ELSE LET searched(r) ==
                 IF r.move # NoneMove THEN {[move |-> uci_of(r.move), board |-> r.board]}
                 ELSE {[move |-> NoneStr, board |-> r.board]}
         IN  searched(minimax(b, depth, 0 - Infinity, Infinity, b.turn))

\* ChessEngine.get_best_move(board): the results the call can have, each
\* the returned string (NoneStr for None) with the board as the call leaves
\* it.  random.choice makes the fallback a choice among the legal moves.
get_best_move(b, depth) ==
    IF is_game_over(b) THEN {[move |-> NoneStr, board |-> b]}
    ELSE LET fallback(b1, moves) ==
                 IF moves # <<>>
                 THEN {[move |-> uci_of(m), board |-> b1] : m \in Range(moves)}
                 ELSE {[move |-> NoneStr, board |-> b1]}
             searched(r) ==
                 IF r.move # NoneMove THEN {[move |-> uci_of(r.move), board |-> r.board]}
                 ELSE fallback(r.board, legal_moves(r.board))
         IN  searched(minimax(b, depth, 0 - Infinity, Infinity, b.turn))

\* ChessEngine.get_move_with_time_limit(board, time_limit)
get_move_with_time_limit(b, depth) == get_best_move(b, depth)

\* ChessEngine.set_depth(depth): the new self.depth
set_depth(n) == Max(1, n)

-----------------------------------------------------------------------------
(* ChessBoard (board.py): the wrapper around the python-chess board         *)

\* ChessBoard.legal_moves: the legal moves as UCI strings
ChessBoard_legal_moves(b) ==
    LET moves == generate_legal_moves(b)
    IN  [i \in 1 .. Len(moves) |-> uci_of(moves[i])]

\* A validity test that forgets the king's safety
is_valid_move_pseudo(b, move_uci) ==
    uci_valid(move_uci) /\ is_pseudo_legal(b, from_uci(move_uci))

\* ChessBoard.is_valid_move(move_uci)
is_valid_move(b, move_uci) == uci_valid(move_uci) /\ is_legal(b, from_uci(move_uci))

\* ChessBoard.make_move(move_uci): the value returned and the board afterwards
make_move(b, move_uci) ==
    IF ~is_valid_move(b, move_uci) THEN [value |-> FALSE, board |-> b]
    ELSE [value |-> TRUE, board |-> board_push(b, from_uci(move_uci))]

\* ChessBoard.undo_move()
undo_move(b) == IF b.move_stack # <<>> THEN board_pop(b) ELSE b

\* ChessBoard.get_fen()
get_fen(b) == fen_of(b)

\* A set_fen that, on a rejected FEN, keeps the position but loses the moves
set_fen_loses_stack(b, fen) ==
    IF fen_valid(fen) THEN [value |-> TRUE, board |-> Board(fen)]
    ELSE [value |-> FALSE, board |-> [b EXCEPT !.move_stack = EmptyStack, !.stack = EmptyStack]]

\* ChessBoard.set_fen(fen): the value returned and the board afterwards
set_fen(b, fen) ==
    IF fen_valid(fen) THEN [value |-> TRUE, board |-> Board(fen)]
    ELSE [value |-> FALSE, board |-> b]

\* ChessBoard.pieces: the pieces on the board
ChessBoard_pieces(b) == b.pieces

-----------------------------------------------------------------------------
(* MinimaxEngine (engine/minimax.py)                                        *)

\* MinimaxEngine.evaluate(board): value * piece.color, the colour being the
\* bool True (1) for White and False (0) for Black
MinimaxEngine_evaluate(b) ==
    LET pieces == ChessBoard_pieces(b)
        RECURSIVE sum(_)
        sum(S) == IF S = {} THEN 0
                  ELSE LET s == CHOOSE x \in S : TRUE
                       IN  PIECE_VALUES[piece_type(pieces[s])]
                             * (IF piece_color(pieces[s]) THEN 1 ELSE 0)
                           + sum(S \ {s})
    IN  sum(DOMAIN pieces)

\* MinimaxEngine.maxi / mini (board, depth): [raised, value].  The board is
\* never changed, so with depth < 0 and a legal move the recursion has no
\* end: Python raises RecursionError (raised = TRUE).
RECURSIVE maxi(_, _)
RECURSIVE mini(_, _)
maxi(b, depth) ==
    LET RECURSIVE best(_, _, _)
        best(scores, i, max_eval) ==
            IF i > Len(scores) THEN max_eval
            ELSE best(scores, i + 1, Max(max_eval, scores[i].value))
        folded(scores) ==
            IF \E i \in 1 .. Len(scores) : scores[i].raised
            THEN [raised |-> TRUE, value |-> 0]
            ELSE [raised |-> FALSE, value |-> best(scores, 1, 0 - Infinity)]
        looped(moves) ==
            IF moves = <<>> THEN [raised |-> FALSE, value |-> 0 - Infinity]
            ELSE IF depth < 0 THEN [raised |-> TRUE, value |-> 0]
            ELSE folded([i \in 1 .. Len(moves) |-> mini(b, depth - 1)])
    IN  IF depth = 0 THEN [raised |-> FALSE, value |-> MinimaxEngine_evaluate(b)]
        ELSE looped(ChessBoard_legal_moves(b))

mini(b, depth) ==
    LET RECURSIVE best(_, _, _)
        best(scores, i, min_eval) ==
            IF i > Len(scores) THEN min_eval
            ELSE best(scores, i + 1, Min(min_eval, scores[i].value))
        folded(scores) ==
            IF \E i \in 1 .. Len(scores) : scores[i].raised
            THEN [raised |-> TRUE, value |-> 0]
            ELSE [raised |-> FALSE, value |-> best(scores, 1, Infinity)]
        looped(moves) ==
            IF moves = <<>> THEN [raised |-> FALSE, value |-> Infinity]
            ELSE IF depth < 0 THEN [raised |-> TRUE, value |-> 0]
            ELSE folded([i \in 1 .. Len(moves) |-> maxi(b, depth - 1)])
    IN  IF depth = 0 THEN [raised |-> FALSE, value |-> MinimaxEngine_evaluate(b)]
        ELSE looped(ChessBoard_legal_moves(b))

\* A get_best_move that starts from the first legal move: moves[0] raises
\* IndexError when there is none
MinimaxEngine_get_best_move_first(b, depth) ==
    LET looped(moves) ==
            IF moves = <<>> THEN [raised |-> TRUE, move |-> NoneStr]
            ELSE [raised |-> maxi(b, depth - 1).raised, move |-> moves[1]]
    IN  looped(ChessBoard_legal_moves(b))

\* MinimaxEngine.get_best_move(board): [raised, move], the move a UCI string
\* of board.legal_moves or NoneStr
MinimaxEngine_get_best_move(b, depth) ==
    LET RECURSIVE loop(_, _, _, _, _)
        loop(moves, scores, i, best_score, best_move) ==
            IF i > Len(moves) THEN best_move
            ELSE IF scores[i].value > best_score
            THEN loop(moves, scores, i + 1, scores[i].value, moves[i])
            ELSE loop(moves, scores, i + 1, best_score, best_move)
        scored(moves, scores) ==
            IF \E i \in 1 .. Len(moves) : scores[i].raised
            THEN [raised |-> TRUE, move |-> NoneStr]
            ELSE [raised |-> FALSE, move |-> loop(moves, scores, 1, 0 - Infinity, NoneStr)]
        looped(moves) == scored(moves, [i \in 1 .. Len(moves) |-> maxi(b, depth - 1)])
    IN  looped(ChessBoard_legal_moves(b))

\* MinimaxEngine.get_move_with_time_limit(board, time_limit)
MinimaxEngine_get_move_with_time_limit(b, depth) == MinimaxEngine_get_best_move(b, depth)

\* MinimaxEngine.get_move(board, time_limit)
MinimaxEngine_get_move(b, depth) == MinimaxEngine_get_best_move(b, depth)

\* MinimaxEngine.set_depth(depth): the new self.depth
MinimaxEngine_set_depth(n) == n

-----------------------------------------------------------------------------
(* Inputs: FEN strings and move strings.  A FEN is the sequence of its      *)
(* whitespace-separated parts, a part the sequence of its characters.       *)

\* White is checkmated (the fixture of the tests)
FoolsMateFen ==
    <<<<"r", "n", "b", "1", "k", "b", "n", "r", "/", "p", "p", "p", "p", "1", "p", "p", "p", "/", "8", "/", "4", "p", "3", "/", "6", "P", "q", "/", "5", "P", "2", "/", "P", "P", "P", "P", "P", "2", "P", "/", "R", "N", "B", "Q", "K", "B", "N", "R">>, <<"w">>, <<"K", "Q", "k", "q">>, <<"-">>, <<"1">>, <<"3">>>>

\* Black is checkmated
BackRankMateFen ==
    <<<<"R", "5", "k", "1", "/", "5", "p", "p", "p", "/", "8", "/", "8", "/", "8", "/", "8", "/", "8", "/", "K", "7">>, <<"b">>, <<"-">>, <<"-">>, <<"0">>, <<"1">>>>

\* king against king: insufficient material, three legal moves
KingsFen ==
    <<<<"k", "7", "/", "8", "/", "8", "/", "8", "/", "8", "/", "8", "/", "8", "/", "K", "7">>, <<"w">>, <<"-">>, <<"-">>, <<"0">>, <<"1">>>>

\* king and knight against king: insufficient material
KnightFen ==
    <<<<"k", "7", "/", "8", "/", "8", "/", "8", "/", "8", "/", "8", "/", "8", "/", "K", "N", "6">>, <<"w">>, <<"-">>, <<"-">>, <<"0">>, <<"1">>>>

\* Black is stalemated
StalemateFen ==
    <<<<"k", "7", "/", "8", "/", "1", "Q", "6", "/", "8", "/", "8", "/", "8", "/", "8", "/", "K", "7">>, <<"b">>, <<"-">>, <<"-">>, <<"0">>, <<"1">>>>

\* White is stalemated
WhiteStalemateFen ==
    <<<<"K", "7", "/", "8", "/", "1", "q", "6", "/", "8", "/", "8", "/", "8", "/", "8", "/", "k", "7">>, <<"w">>, <<"-">>, <<"-">>, <<"0">>, <<"1">>>>

\* the empty board (a fixture of the tests)
EmptyFen ==
    <<<<"8", "/", "8", "/", "8", "/", "8", "/", "8", "/", "8", "/", "8", "/", "8">>, <<"w">>, <<"-">>, <<"-">>, <<"0">>, <<"1">>>>

\* one legal move, a capture
SingleMoveFen ==
    <<<<"k", "7", "/", "8", "/", "8", "/", "8", "/", "8", "/", "8", "/", "1", "r", "6", "/", "K", "7">>, <<"w">>, <<"-">>, <<"-">>, <<"0">>, <<"1">>>>

\* a pawn about to promote
PromotionFen ==
    <<<<"8", "/", "P", "6", "k", "/", "8", "/", "8", "/", "8", "/", "8", "/", "8", "/", "K", "7">>, <<"w">>, <<"-">>, <<"-">>, <<"0">>, <<"1">>>>

\* White may castle king side
CastlingFen ==
    <<<<"k", "7", "/", "p", "7", "/", "P", "7", "/", "8", "/", "8", "/", "7", "p", "/", "7", "P", "/", "4", "K", "2", "R">>, <<"w">>, <<"K">>, <<"-">>, <<"0">>, <<"1">>>>

\* a2a4 allows the capture en passant b4a3
EnPassantFen ==
    <<<<"k", "7", "/", "8", "/", "8", "/", "8", "/", "1", "p", "6", "/", "8", "/", "P", "7", "/", "K", "7">>, <<"w">>, <<"-">>, <<"-">>, <<"0">>, <<"1">>>>

\* White is in check
InCheckFen ==
    <<<<"k", "7", "/", "8", "/", "8", "/", "8", "/", "8", "/", "8", "/", "8", "/", "K", "6", "r">>, <<"w">>, <<"-">>, <<"-">>, <<"0">>, <<"1">>>>

\* the 75-move rule has ended the game
SeventyFiveFen ==
    <<<<"k", "7", "/", "8", "/", "8", "/", "8", "/", "8", "/", "8", "/", "8", "/", "K", "R", "6">>, <<"w">>, <<"-">>, <<"-">>, <<"1", "5", "0">>, <<"1", "0", "0">>>>

\* Black may capture a pawn
BlackCaptureFen ==
    <<<<"7", "k", "/", "7", "p", "/", "6", "P", "1", "/", "8", "/", "8", "/", "8", "/", "8", "/", "K", "7">>, <<"b">>, <<"-">>, <<"-">>, <<"0">>, <<"1">>>>

\* only the board part: the other parts take their defaults
BoardOnlyFen ==
    <<<<"8", "/", "8", "/", "8", "/", "8", "/", "8", "/", "8", "/", "8", "/", "K", "6", "k">>>>

\* the malformed FEN of the tests
InvalidFen ==
    <<<<"i", "n", "v", "a", "l", "i", "d">>, <<"f", "e", "n">>>>

\* the empty string
EmptyString ==
    <<>>

\* seven rows
SevenRowsFen ==
    <<<<"8", "/", "8", "/", "8", "/", "8", "/", "8", "/", "8", "/", "8">>, <<"w">>, <<"-">>, <<"-">>, <<"0">>, <<"1">>>>

\* a row of seven squares
ShortRowFen ==
    <<<<"k", "6", "/", "8", "/", "8", "/", "8", "/", "8", "/", "8", "/", "8", "/", "K", "7">>, <<"w">>, <<"-">>, <<"-">>, <<"0">>, <<"1">>>>

\* an unknown piece letter
BadPieceFen ==
    <<<<"x", "7", "/", "8", "/", "8", "/", "8", "/", "8", "/", "8", "/", "8", "/", "K", "7">>, <<"w">>, <<"-">>, <<"-">>, <<"0">>, <<"1">>>>

\* a bad side to move
BadTurnFen ==
    <<<<"k", "7", "/", "8", "/", "8", "/", "8", "/", "8", "/", "8", "/", "8", "/", "K", "7">>, <<"x">>, <<"-">>, <<"-">>, <<"0">>, <<"1">>>>

\* a bad castling part
BadCastlingFen ==
    <<<<"k", "7", "/", "8", "/", "8", "/", "8", "/", "8", "/", "8", "/", "8", "/", "K", "7">>, <<"w">>, <<"X">>, <<"-">>, <<"0">>, <<"1">>>>

\* a bad en-passant square
BadEpFen ==
    <<<<"k", "7", "/", "8", "/", "8", "/", "8", "/", "8", "/", "8", "/", "8", "/", "K", "7">>, <<"w">>, <<"-">>, <<"e", "9">>, <<"0">>, <<"1">>>>

\* a halfmove clock that is no number
BadClockFen ==
    <<<<"k", "7", "/", "8", "/", "8", "/", "8", "/", "8", "/", "8", "/", "8", "/", "K", "7">>, <<"w">>, <<"-">>, <<"-">>, <<"x">>, <<"1">>>>

\* a negative halfmove clock
NegativeClockFen ==
    <<<<"k", "7", "/", "8", "/", "8", "/", "8", "/", "8", "/", "8", "/", "8", "/", "K", "7">>, <<"w">>, <<"-">>, <<"-">>, <<"-", "1">>, <<"1">>>>

\* seven parts
SevenPartsFen ==
    <<<<"k", "7", "/", "8", "/", "8", "/", "8", "/", "8", "/", "8", "/", "8", "/", "K", "7">>, <<"w">>, <<"-">>, <<"-">>, <<"0">>, <<"1">>, <<"1">>>>

\* FEN strings chess.Board accepts, given to the ChessBoard
BoardFens ==
    {FoolsMateFen, BackRankMateFen, KingsFen, KnightFen, StalemateFen,
     WhiteStalemateFen, EmptyFen, SingleMoveFen, PromotionFen, CastlingFen,
     EnPassantFen, InCheckFen, BoardOnlyFen}

\* Positions given to the engines
EngineFens ==
    {FoolsMateFen, BackRankMateFen, KingsFen, KnightFen, StalemateFen,
     WhiteStalemateFen, EmptyFen, SingleMoveFen, PromotionFen, InCheckFen,
     SeventyFiveFen, BlackCaptureFen}

\* FEN strings chess.Board rejects with ValueError
MalformedFens ==
    {InvalidFen, EmptyString, SevenRowsFen, ShortRowFen, BadPieceFen,
     BadTurnFen, BadCastlingFen, BadEpFen, BadClockFen, NegativeClockFen,
     SevenPartsFen}

\* Move strings that are not always the UCI string of a legal move
OtherMoveStrings ==
    {<<"i", "n", "v", "a", "l", "i", "d">>,
     <<>>,
     <<"0", "0", "0", "0">>,
     <<"e", "2", "e", "5">>,
     <<"a", "7", "a", "8">>,
     <<"a", "7", "a", "8", "k">>,
     <<"e", "1", "h", "1">>,
     <<"e", "1", "g", "1">>,
     <<"a", "1", "a", "1">>,
     <<"e", "2", "e", "4", "q">>,
     <<"z", "9", "e", "4">>,
     <<"a", "1", "b", "1">>}

-----------------------------------------------------------------------------
(* The state machines.                                                      *)
(*                                                                          *)
(*   board   the ChessBoard's position (ChessBoard._board), or the game     *)
(*           tree the search runs on                                        *)
(*   engine  the class of the engine object                                 *)
(*   depth   the engine's self.depth                                        *)
(*   ret     what the last call returned, with what the caller knew before  *)
(*           it                                                             *)
(*   hist    what get_fen() returned, and the position, before each move of *)
(*           the move stack was made                                        *)
(*   uci     the AdvancedUCIEngine object that owns the board and the       *)
(*           engine, with its threads and its input and output; None where  *)
(*           board and engine are used without one                          *)

VARIABLES board, engine, depth, ret, hist, uci

vars == <<board, engine, depth, ret, hist, uci>>

\* Moves made on one board
MaxPly == 2
\* Largest search depth
MaxDepth == 2
\* Nodes of a game tree
MaxNodes == 5
\* Largest evaluation in a game tree
MaxLeaf == 1

\* The default of ChessEngine(depth) and MinimaxEngine(depth)
DefaultDepth == 3

Engines == {"ChessEngine", "MinimaxEngine"}

\* The methods of the class ChessEngine of engine.py; calling any other
\* raises AttributeError
ChessEngine_methods ==
    {"evaluate_position", "_evaluate_positional_factors", "minimax",
     "get_best_move", "get_move_with_time_limit", "set_depth"}

\* The move strings tried on a board: those of its legal moves and others
MoveStrings(b) == Range(ChessBoard_legal_moves(b)) \cup OtherMoveStrings

\* The UCI strings python-chess takes as legal: those of the legal moves
\* and, for a legal castling move, the king-takes-rook form
LegalStrings(b) ==
    LET moves == generate_legal_moves(b)
        alias(m) == IF m \in Range(castling_moves(b))
                    THEN uci_of(Move(m.from_square,
                                     square(IF square_file(m.to_square) = 6 THEN 7 ELSE 0,
                                            square_rank(m.to_square)), None))
                    ELSE uci_of(m)
    IN  {uci_of(m) : m \in Range(moves)} \cup {alias(m) : m \in Range(moves)}

-----------------------------------------------------------------------------
(* Spec: a ChessBoard and the evaluator of ChessEngine                      *)

Init ==
    /\ board \in {Board(fen) : fen \in BoardFens}
    /\ engine = "ChessEngine"
    /\ depth = DefaultDepth
    /\ ret = [op |-> "init"]
    /\ hist = <<>>
    /\ uci = None

\* board.make_move(s)
MakeMove ==
    /\ Len(board.move_stack) < MaxPly
    /\ LET legal == LegalStrings(board)
           fen == get_fen(board)
       IN  \E s \in MoveStrings(board) :
             LET r == make_move(board, s)
             IN  /\ board' = r.board
                 /\ ret' = [op |-> "make_move", value |-> r.value, before |-> board,
                            parses |-> uci_valid(s), legal |-> s \in legal,
                            move |-> IF r.value THEN from_uci(s) ELSE NoneMove]
                 /\ hist' = IF r.value
                            THEN Append(hist, [fen |-> fen, state |-> board_state(board)])
                            ELSE hist
    /\ UNCHANGED <<engine, depth, uci>>

\* board.undo_move(); made is the record of the moves made before the call,
\* undos the number of moves this call and the calls of undo_move right
\* before it have taken back
UndoMove ==
    /\ board' = undo_move(board)
    /\ ret' = [op |-> "undo_move",
               undos |-> IF board.move_stack = <<>> THEN 0
                         ELSE IF ret.op = "undo_move" THEN ret.undos + 1 ELSE 1,
               made |-> hist]
    /\ hist' = IF hist = <<>> THEN hist ELSE SubSeq(hist, 1, Len(hist) - 1)
    /\ UNCHANGED <<engine, depth, uci>>

\* board.set_fen(fen)
SetFen ==
    /\ \E fen \in BoardFens \cup MalformedFens :
         LET r == set_fen(board, fen)
         IN  /\ board' = r.board
             /\ ret' = IF r.value
                       THEN [op |-> "set_fen", value |-> TRUE,
                             malformed |-> fen \in MalformedFens, fen |-> fen]
                       ELSE [op |-> "set_fen", value |-> FALSE,
                             malformed |-> fen \in MalformedFens, before |-> board]
             /\ hist' = IF r.value THEN <<>> ELSE hist
    /\ UNCHANGED <<engine, depth, uci>>

\* engine.evaluate_position(board._board)
EvaluatePosition ==
    /\ LET e == evaluate_position(board)
       IN  /\ board' = e.board
           /\ ret' = [op |-> "evaluate_position", score |-> e.score, before |-> board]
    /\ UNCHANGED <<engine, depth, hist, uci>>

Next == MakeMove \/ UndoMove \/ SetFen \/ EvaluatePosition

Spec == Init /\ [][Next]_vars

-----------------------------------------------------------------------------
(* SpecEngine: an engine of either class asked for a move                   *)

InitEngine ==
    /\ board \in {Board(fen) : fen \in EngineFens}
    /\ engine \in Engines
    /\ depth \in 0 .. MaxDepth
    /\ ret = [op |-> "init"]
    /\ hist = <<>>
    /\ uci = None

\* engine.set_depth(n)
SetDepth ==
    /\ \E n \in (0 - 1) .. MaxDepth :
         /\ depth' = IF engine = "ChessEngine" THEN set_depth(n)
                     ELSE MinimaxEngine_set_depth(n)
         /\ ret' = [op |-> "set_depth", arg |-> n]
    /\ UNCHANGED <<board, engine, hist, uci>>

\* A call of the ChessEngine method name, which get_best_move serves
ChessEngineCall(name) ==
    /\ engine = "ChessEngine"
    /\ IF name \in ChessEngine_methods
       THEN \E r \in get_best_move(board, depth) :
              /\ board' = r.board
              /\ ret' = [op |-> name, raised |-> FALSE, move |-> r.move, before |-> board]
       ELSE /\ board' = board
            /\ ret' = [op |-> name, raised |-> TRUE, move |-> NoneStr, before |-> board]
    /\ UNCHANGED <<engine, depth, hist, uci>>

\* A call of a MinimaxEngine method, its result being r
MinimaxEngineCall(name, r) ==
    /\ engine = "MinimaxEngine"
    /\ ret' = [op |-> name, raised |-> r.raised, move |-> r.move, before |-> board]
    /\ UNCHANGED <<board, engine, depth, hist, uci>>

\* engine.get_best_move(board)
GetBestMove ==
    \/ ChessEngineCall("get_best_move")
    \/ MinimaxEngineCall("get_best_move", MinimaxEngine_get_best_move(board, depth))

\* engine.get_move_with_time_limit(board, time_limit)
GetMoveWithTimeLimit ==
    \/ ChessEngineCall("get_move_with_time_limit")
    \/ MinimaxEngineCall("get_move_with_time_limit",
                         MinimaxEngine_get_move_with_time_limit(board, depth))

\* engine.get_move(board, time_limit)
GetMove ==
    \/ ChessEngineCall("get_move")
    \/ MinimaxEngineCall("get_move", MinimaxEngine_get_move(board, depth))

\* engine.evaluate(board): a method of MinimaxEngine only
Evaluate ==
    \/ ChessEngineCall("evaluate")
    \/ /\ engine = "MinimaxEngine"
       /\ ret' = [op |-> "evaluate", raised |-> FALSE,
                  score |-> MinimaxEngine_evaluate(board), before |-> board]
       /\ UNCHANGED <<board, engine, depth, hist, uci>>

NextEngine == SetDepth \/ GetBestMove \/ GetMoveWithTimeLimit \/ GetMove \/ Evaluate

SpecEngine == InitEngine /\ [][NextEngine]_vars

-----------------------------------------------------------------------------
(* SpecSearch: the searches of an engine on chess boards, minimax with      *)
(* windows                                                                  *)

\* The values given to minimax on a chess board as alpha and as beta
AlphaBounds == {0 - Infinity, 0}
BetaBounds == {0, Infinity}

\* engine.minimax(board, depth, alpha, beta, maximizing): a method of
\* ChessEngine only, the call raises AttributeError on a MinimaxEngine
Minimax ==
    \/ MinimaxEngineCall("minimax", [raised |-> TRUE, move |-> NoneStr])
    \/ /\ engine = "ChessEngine"
       /\ \E maximizing \in BOOLEAN, alpha \in AlphaBounds, beta \in BetaBounds :
            LET searched(r) ==
                    /\ board' = r.board
                    /\ ret' = [op |-> "minimax", raised |-> FALSE,
                               maximizing |-> maximizing, alpha |-> alpha, beta |-> beta,
                               eval |-> r.eval, move |-> r.move, nodes |-> r.nodes,
                               before |-> board]
            IN  searched(minimax(board, depth, alpha, beta, maximizing))
       /\ UNCHANGED <<engine, depth, hist, uci>>

\* Positions searched
SearchFens == EngineFens

InitSearch ==
    /\ board \in {Board(fen) : fen \in SearchFens}
    /\ engine \in Engines
    /\ depth \in 0 .. MaxDepth
    /\ ret = [op |-> "init"]
    /\ hist = <<>>
    /\ uci = None

NextSearch == Minimax \/ GetBestMove

SpecSearch == InitSearch /\ [][NextSearch]_vars

-----------------------------------------------------------------------------
(* SpecTree: ChessEngine.minimax on every small game tree                   *)

\* The game trees of n nodes with evaluations 0 .. MaxLeaf, and the
\* sequences of trees of m nodes together
RECURSIVE TreesOfSize(_)
RECURSIVE ForestsOfSize(_)
TreesOfSize(n) ==
    {[eval |-> e, kids |-> f] : e \in 0 .. MaxLeaf, f \in ForestsOfSize(n - 1)}

ForestsOfSize(m) ==
    IF m = 0 THEN {<<>>}
    ELSE UNION {{<<t>> \o f : t \in TreesOfSize(k), f \in ForestsOfSize(m - k)} : k \in 1 .. m}

Trees == UNION {TreesOfSize(n) : n \in 1 .. MaxNodes}

InitTree ==
    /\ board \in {TreeBoard(t) : t \in Trees}
    /\ engine = "ChessEngine"
    /\ depth \in 0 .. MaxDepth
    /\ ret = [op |-> "init"]
    /\ hist = <<>>
    /\ uci = None

\* engine.minimax(board, depth, -inf, +inf, maximizing)
Search ==
    /\ \E maximizing \in BOOLEAN :
         LET r == minimax(board, depth, 0 - Infinity, Infinity, maximizing)
         IN  /\ board' = r.board
             /\ ret' = [op |-> "minimax", maximizing |-> maximizing, eval |-> r.eval,
                        move |-> r.move, nodes |-> r.nodes, before |-> board]
    /\ UNCHANGED <<engine, depth, hist, uci>>

\* The values given as alpha and beta: the infinities and the evaluations
WindowBounds == {0 - Infinity, Infinity} \cup (0 .. MaxLeaf)

\* engine.minimax(board, depth, alpha, beta, maximizing)
SearchWindow ==
    /\ \E maximizing \in BOOLEAN, alpha \in WindowBounds, beta \in WindowBounds :
         LET searched(r) ==
                 /\ board' = r.board
                 /\ ret' = [op |-> "minimax_window", maximizing |-> maximizing,
                            alpha |-> alpha, beta |-> beta, eval |-> r.eval,
                            move |-> r.move, nodes |-> r.nodes, before |-> board]
         IN  searched(minimax(board, depth, alpha, beta, maximizing))
    /\ UNCHANGED <<engine, depth, hist, uci>>

NextTree == Search \/ SearchWindow

SpecTree == InitTree /\ [][NextTree]_vars

-----------------------------------------------------------------------------
(* The properties                                                           *)

\* Depth-limited minimax without pruning: the moves in the order of
\* legal_moves, the evaluator of the engine, a move replacing the best one
\* only when strictly better; nodes counts the positions evaluated
RECURSIVE plain_minimax(_, _, _)
plain_minimax(b, d, maximizing) ==
    IF d = 0 \/ is_game_over(b)
    THEN [eval |-> evaluate_position(b).score, move |-> NoneMove, nodes |-> 1]
    ELSE LET moves == legal_moves(b)
             rs == [i \in 1 .. Len(moves) |->
                      plain_minimax(push(b, moves[i]), d - 1, ~maximizing)]
             better(x, y) == IF maximizing THEN x > y ELSE x < y
             RECURSIVE scan(_, _, _, _)
             scan(i, best, best_move, nodes) ==
                 IF i > Len(moves) THEN [eval |-> best, move |-> best_move, nodes |-> nodes]
                 ELSE IF better(rs[i].eval, best)
                 THEN scan(i + 1, rs[i].eval, moves[i], nodes + rs[i].nodes)
                 ELSE scan(i + 1, best, best_move, nodes + rs[i].nodes)
         IN  scan(1, IF maximizing THEN 0 - Infinity ELSE Infinity, NoneMove, 0)

\* C1: on every game tree, with every evaluation of its nodes and at every
\* depth, minimax called with alpha = -infinity and beta = +infinity returns
\* the score and the move of the unpruned minimax, evaluates no more
\* positions than it, and leaves the board as it was.
C1_AlphaBetaIsMinimax ==
    ret.op = "minimax" =>
        LET plain == plain_minimax(ret.before, depth, ret.maximizing)
        IN  /\ ret.eval = plain.eval
            /\ ret.move = plain.move
            /\ ret.nodes <= plain.nodes
            /\ board = ret.before

\* A search that pruned: it evaluated fewer positions than the unpruned
\* minimax and returned a move
C1_Pruned ==
    /\ ret.op = "minimax"
    /\ ret.move # NoneMove
    /\ ret.nodes < plain_minimax(ret.before, depth, ret.maximizing).nodes

\* C2: whenever the side to move has a legal move and the depth is at least
\* 1, ChessEngine.get_best_move returns a move, and the move is one of the
\* legal moves of the position.
C2_BestMoveWhenLegalMoves ==
    (/\ engine = "ChessEngine"
     /\ ret.op = "get_best_move"
     /\ depth >= 1
     /\ generate_legal_moves(ret.before) # <<>>)
    => /\ ~ret.raised
       /\ ret.move # NoneStr
       /\ ret.move \in Range(ChessBoard_legal_moves(ret.before))

\* The calls that ask an engine for a move
MoveCalls == {"get_best_move", "get_move", "get_move_with_time_limit"}

\* C3 as stated: in a position without a legal move, get_best_move, get_move
\* and get_move_with_time_limit of both engines return None at every depth.
C3_EveryCallGivesNone ==
    (ret.op \in MoveCalls /\ generate_legal_moves(ret.before) = <<>>)
    => ~ret.raised /\ ret.move = NoneStr

\* C3 as amended: in a position without a legal move, get_best_move and
\* get_move_with_time_limit of ChessEngine and get_best_move, get_move and
\* get_move_with_time_limit of MinimaxEngine return None at every depth and
\* leave the board as it was; ChessEngine has no get_move, the call raises.
C3_NoLegalMoveGivesNone ==
    (ret.op \in MoveCalls /\ generate_legal_moves(ret.before) = <<>>)
    => /\ board = ret.before
       /\ IF engine = "ChessEngine" /\ ret.op = "get_move"
          THEN ret.raised
          ELSE ~ret.raised /\ ret.move = NoneStr

\* MinimaxEngine at a depth below 1 asked for a move in a checkmate
C3_MatedAtDepthZero ==
    /\ engine = "MinimaxEngine"
    /\ ret.op = "get_move"
    /\ depth <= 0
    /\ is_checkmate(ret.before)
    /\ ret.move = NoneStr

\* The value of a position in a minimax of depth d over the evaluation of
\* MinimaxEngine: White maximizes, Black minimizes, a side without a move
\* gets the worst value
RECURSIVE minimax_value(_, _)
minimax_value(b, d) ==
    LET moves == generate_legal_moves(b)
        values == {minimax_value(board_push(b, m), d - 1) : m \in Range(moves)}
    IN  IF d = 0 THEN MinimaxEngine_evaluate(b)
        ELSE IF moves = <<>> THEN (IF b.turn = WHITE THEN 0 - Infinity ELSE Infinity)
        ELSE IF b.turn = WHITE THEN CHOOSE v \in values : \A w \in values : w <= v
        ELSE CHOOSE v \in values : \A w \in values : v <= w

\* C4: MinimaxEngine.get_best_move returns a move whose position, searched
\* to depth - 1 with the sides alternating, has the best minimax value for
\* the side to move.
C4_MinimaxEngineIsMinimax ==
    (/\ engine = "MinimaxEngine"
     /\ ret.op = "get_best_move"
     /\ depth >= 1
     /\ generate_legal_moves(ret.before) # <<>>)
    => /\ ~ret.raised
       /\ ret.move # NoneStr
       /\ minimax_value(board_push(ret.before, from_uci(ret.move)), depth - 1)
            = minimax_value(ret.before, depth)

\* C5: make_move(s) returns True exactly when s parses as a UCI move that is
\* legal; it then puts that one move on the move stack, moves the piece and
\* passes the turn, and pop gives the position before; otherwise it returns
\* False and the board, move stack included, is as before.
C5_MakeMove ==
    ret.op = "make_move" =>
        /\ ret.value = (ret.parses /\ ret.legal)
        /\ IF ret.value
           THEN LET m == from_chess960(ret.before, ret.move)
                    piece == ret.before.pieces[m.from_square]
                IN  /\ board.move_stack = Append(ret.before.move_stack, m)
                    /\ board.turn = ~ret.before.turn
                    /\ m.from_square \notin DOMAIN board.pieces
                    /\ board.pieces[m.to_square] =
                         (IF m.promotion = None THEN piece
                          ELSE piece_symbol(m.promotion, ret.before.turn))
                    /\ board_pop(board) = ret.before
           ELSE board = ret.before

\* A second move made, a promotion or a capture
C5_MoveMade ==
    /\ ret.op = "make_move"
    /\ ret.value
    /\ Len(board.move_stack) = 2
    /\ \/ ret.move.promotion # None
       \/ ret.move.to_square \in DOMAIN ret.before.pieces

\* C6: undo_move after make_move gives back the position before the move
\* (pieces, side to move, castling rights, en-passant square, both counters)
\* and the string get_fen returned then; so k undos after k moves give back
\* the first position.
C6_UndoRestores ==
    /\ Len(hist) = Len(board.move_stack)
    /\ (ret.op = "undo_move" /\ ret.made # <<>>) =>
          LET was == ret.made[Len(ret.made)]
          IN  /\ get_fen(board) = was.fen
              /\ board_state(board) = was.state
              /\ hist = SubSeq(ret.made, 1, Len(ret.made) - 1)

\* Two moves made and both taken back
C6_TwoUndone ==
    /\ ret.op = "undo_move"
    /\ ret.undos = 2
    /\ Len(ret.made) = 1
    /\ board.move_stack = <<>>

\* C7: set_fen returns False for a FEN chess.Board rejects and leaves the
\* board, move stack included, as it was; for a FEN it accepts it returns
\* True, the move stack is empty and get_fen gives the position of the FEN.
C7_SetFen ==
    ret.op = "set_fen" =>
        /\ ret.value = ~ret.malformed
        /\ IF ret.value
           THEN /\ board.move_stack = <<>>
                /\ get_fen(board)[1] = ret.fen[1]
                /\ Len(ret.fen) = 6 => get_fen(board) = ret.fen
           ELSE board = ret.before

\* A malformed FEN rejected on a board with moves made
C7_RejectedAfterMove ==
    /\ ret.op = "set_fen"
    /\ ret.malformed
    /\ ~ret.value
    /\ board.move_stack # <<>>

\* C8: in a checkmate evaluate_position returns -10000 with White to move
\* and +10000 with Black to move.
C8_CheckmateScore ==
    (ret.op = "evaluate_position" /\ is_checkmate(ret.before))
    => ret.score = (IF ret.before.turn = WHITE THEN 0 - 10000 ELSE 10000)

\* Black is checkmated and the score is +10000
C8_BlackMated ==
    /\ ret.op = "evaluate_position"
    /\ is_checkmate(ret.before)
    /\ ret.before.turn = BLACK
    /\ ret.score = 10000

\* C9: in a stalemate or with insufficient material, no checkmate, the
\* evaluation is 0.
C9_DrawScore ==
    (/\ ret.op = "evaluate_position"
     /\ ~is_checkmate(ret.before)
     /\ is_stalemate(ret.before) \/ is_insufficient_material(ret.before))
    => ret.score = 0

\* A stalemate with unequal material evaluated as 0
C9_StalemateUnequal ==
    /\ ret.op = "evaluate_position"
    /\ is_stalemate(ret.before)
    /\ material_score(ret.before.pieces) # 0
    /\ ret.score = 0

\* C10: evaluate_position leaves the board as it was, move stack included,
\* and a second call on it returns the same score.
C10_EvaluatePure ==
    ret.op = "evaluate_position" =>
        /\ board = ret.before
        /\ evaluate_position(board).score = ret.score
        /\ evaluate_position(board).board = board

\* A position in play, with moves made, evaluated through the null move
C10_NullMovePopped ==
    /\ ret.op = "evaluate_position"
    /\ ~is_checkmate(ret.before)
    /\ ~is_stalemate(ret.before)
    /\ ~is_insufficient_material(ret.before)
    /\ board.move_stack # <<>>

\* The number of legal moves the side color has in the position of b: those
\* of b when color is to move, else those after passing the turn
legal_move_count(b, color) ==
    Len(generate_legal_moves(IF b.turn = color THEN b ELSE board_push(b, NullMove)))

\* The centre term of the evaluation: +20 / -20 for a White / Black piece on
\* e4, e5, d4, d5
center_score(pieces) ==
    20 * Cardinality({i \in 1 .. 4 : center_squares[i] \in occupied_co(pieces, WHITE)})
    - 20 * Cardinality({i \in 1 .. 4 : center_squares[i] \in occupied_co(pieces, BLACK)})

\* C11: in a position that is not checkmate, stalemate or insufficient
\* material, the mobility term of evaluate_position (the score less material
\* and centre terms) is 10 * (legal moves of White - legal moves of Black),
\* whichever side is to move.
C11_MobilityWhiteRelative ==
    (/\ ret.op = "evaluate_position"
     /\ ~is_checkmate(ret.before)
     /\ ~is_stalemate(ret.before)
     /\ ~is_insufficient_material(ret.before))
    => ret.score - material_score(ret.before.pieces) - center_score(ret.before.pieces)
         = 10 * (legal_move_count(ret.before, WHITE) - legal_move_count(ret.before, BLACK))

\* C12: MinimaxEngine.evaluate returns the material of White less the
\* material of Black, so 0 when both sides have the same pieces.
C12_EvaluateIsMaterialBalance ==
    (ret.op = "evaluate" /\ ~ret.raised)
    => ret.score = material_score(ret.before.pieces)

-----------------------------------------------------------------------------
(* SpecEval: evaluate_position on positions of large material               *)

\* Where White's queens, rooks and knights stand in these positions: none of
\* the squares attacks h8, where Black's king stands
QueenSquares ==
    <<square(1, 0), square(2, 0), square(3, 0), square(4, 0), square(5, 0),
      square(6, 0), square(0, 1), square(2, 1), square(3, 1)>>
RookSquares == <<square(0, 2), square(1, 2)>>
KnightSquares == <<square(0, 3), square(1, 3)>>

\* chess.Board with White's king on a1, Black's king on h8 and the first q
\* queens, r rooks and n knights of White
MaterialBoard(q, r, n, turn) ==
    LET placed(squares, k, sym) == [s \in {squares[i] : i \in 1 .. k} |-> sym]
    IN  [pieces |-> (A1 :> "K") @@ (H8 :> "k") @@ placed(QueenSquares, q, "Q")
                    @@ placed(RookSquares, r, "R") @@ placed(KnightSquares, n, "N"),
         turn |-> turn, castling_rights |-> {}, ep_square |-> NoSquare,
         halfmove_clock |-> 0, fullmove_number |-> 1,
         move_stack |-> EmptyStack, stack |-> EmptyStack]

InitEval ==
    /\ board \in {MaterialBoard(q, r, n, turn) :
                    q \in 0 .. Len(QueenSquares), r \in 0 .. Len(RookSquares),
                    n \in 0 .. Len(KnightSquares), turn \in BOOLEAN}
    /\ engine = "ChessEngine"
    /\ depth = DefaultDepth
    /\ ret = [op |-> "init"]
    /\ hist = <<>>
    /\ uci = None

NextEval == EvaluatePosition

SpecEval == InitEval /\ [][NextEval]_vars

\* C13: outside checkmate the evaluation is smaller in magnitude than the
\* checkmate score 10000, for positions with one king a side and at most
\* eight promoted pawns.
C13_MateScoreDominates ==
    (ret.op = "evaluate_position" /\ ~is_checkmate(ret.before))
    => (ret.score < 10000 /\ ret.score > 0 - 10000)

\* C14: after set_depth(n) the depth of the engine, of either class, is n
\* when n is at least 1 and is 1 otherwise.
C14_SetDepthClamps ==
    ret.op = "set_depth" => depth = (IF ret.arg >= 1 THEN ret.arg ELSE 1)

\* C15: when the position is not game-over and minimax gives no best move,
\* get_best_move of ChessEngine returns one of the legal moves of the
\* position, never None.
C15_FallbackIsLegalMove ==
    (/\ ret.op \in {"get_best_move", "get_move_with_time_limit"}
     /\ engine = "ChessEngine"
     /\ ~is_game_over(ret.before)
     /\ minimax(ret.before, depth, 0 - Infinity, Infinity, ret.before.turn).move = NoneMove)
    => /\ ~ret.raised
       /\ ret.move # NoneStr
       /\ ret.move \in Range(ChessBoard_legal_moves(ret.before))
       /\ board = ret.before

\* An engine constructed with depth 0 falls back to a move that is not the
\* first of several legal moves
C15_FallbackTaken ==
    /\ ret.op = "get_best_move"
    /\ engine = "ChessEngine"
    /\ depth = 0
    /\ ~is_game_over(ret.before)
    /\ Len(ChessBoard_legal_moves(ret.before)) > 1
    /\ ret.move # NoneStr
    /\ ret.move # ChessBoard_legal_moves(ret.before)[1]

-----------------------------------------------------------------------------
(* AdvancedUCIEngine (uci_engine_advanced.py): the UCI front end.  A line   *)
(* of input is the sequence of its whitespace-separated parts               *)
(* (command.split()), each part a sequence of one-character strings.        *)

\* The words the handlers compare the parts of a line with
kw_uci == <<"u", "c", "i">>
kw_isready == <<"i", "s", "r", "e", "a", "d", "y">>
kw_setoption == <<"s", "e", "t", "o", "p", "t", "i", "o", "n">>
kw_ucinewgame == <<"u", "c", "i", "n", "e", "w", "g", "a", "m", "e">>
kw_position == <<"p", "o", "s", "i", "t", "i", "o", "n">>
kw_go == <<"g", "o">>
kw_stop == <<"s", "t", "o", "p">>
kw_quit == <<"q", "u", "i", "t">>
kw_debug == <<"d", "e", "b", "u", "g">>
kw_startpos == <<"s", "t", "a", "r", "t", "p", "o", "s">>
kw_moves == <<"m", "o", "v", "e", "s">>
kw_fen == <<"f", "e", "n">>
kw_name == <<"n", "a", "m", "e">>
kw_value == <<"v", "a", "l", "u", "e">>
kw_option_Depth == <<"D", "e", "p", "t", "h">>
kw_option_Debug == <<"D", "e", "b", "u", "g">>
kw_true == <<"t", "r", "u", "e">>
kw_on == <<"o", "n">>
kw_off == <<"o", "f", "f">>
kw_movetime == <<"m", "o", "v", "e", "t", "i", "m", "e">>
kw_wtime == <<"w", "t", "i", "m", "e">>
kw_btime == <<"b", "t", "i", "m", "e">>
kw_winc == <<"w", "i", "n", "c">>
kw_binc == <<"b", "i", "n", "c">>
kw_depth == <<"d", "e", "p", "t", "h">>
kw_nodes == <<"n", "o", "d", "e", "s">>
kw_infinite == <<"i", "n", "f", "i", "n", "i", "t", "e">>

LOWER_LETTERS ==
    <<"a", "b", "c", "d", "e", "f", "g", "h", "i", "j", "k", "l", "m",
      "n", "o", "p", "q", "r", "s", "t", "u", "v", "w", "x", "y", "z">>
UPPER_LETTERS ==
    <<"A", "B", "C", "D", "E", "F", "G", "H", "I", "J", "K", "L", "M",
      "N", "O", "P", "Q", "R", "S", "T", "U", "V", "W", "X", "Y", "Z">>

\* str.lower()
lower(cs) ==
    [i \in 1 .. Len(cs) |->
        IF cs[i] \in Range(UPPER_LETTERS) THEN LOWER_LETTERS[IndexOf(UPPER_LETTERS, cs[i])]
        ELSE cs[i]]

\* An optional integer: <<>> for None, <<n>> for the integer n
Nothing == <<>>
Some(n) == <<n>>
\* Python's truth value of an optional integer: neither None nor 0
Truthy(o) == o # Nothing /\ o[1] # 0

\* Time limits are counted in ticks of 1/30 ms, so that remaining / 30 is
\* exact: a millisecond is TicksPerMs ticks
TicksPerMs == 30
\* max(0.1, ...), min(..., 30.0) and the default of 5.0 seconds, in ticks
MinTimeLimit == 3000
MaxTimeLimit == 900000
DefaultTimeLimit == 150000

\* The controls dictionary _parse_time_controls starts from
NoControls ==
    [movetime |-> Nothing, wtime |-> Nothing, btime |-> Nothing, winc |-> Nothing,
     binc |-> Nothing, depth |-> Nothing, nodes |-> Nothing, infinite |-> FALSE]

\* The keys of the controls that take an integer, by the word that names them
control_key(word) ==
    CASE word = kw_movetime -> "movetime"
      [] word = kw_wtime -> "wtime"
      [] word = kw_btime -> "btime"
      [] word = kw_winc -> "winc"
      [] word = kw_binc -> "binc"
      [] word = kw_depth -> "depth"
      [] word = kw_nodes -> "nodes"
      [] OTHER -> None

\* The loop of _parse_time_controls from the i-th argument on: a word that
\* names a control takes the next argument, which is kept when int() accepts
\* it
RECURSIVE parse_time_controls_from(_, _, _)
parse_time_controls_from(args, i, controls) ==
    IF i > Len(args) THEN controls
    ELSE IF control_key(args[i]) # None /\ i + 1 <= Len(args)
    THEN parse_time_controls_from(args, i + 2,
             IF ParseInt(args[i + 1]).ok
             THEN [controls EXCEPT ![control_key(args[i])] = Some(ParseInt(args[i + 1]).value)]
             ELSE controls)
    ELSE IF args[i] = kw_infinite
    THEN parse_time_controls_from(args, i + 1, [controls EXCEPT !.infinite = TRUE])
    ELSE parse_time_controls_from(args, i + 1, controls)

\* AdvancedUCIEngine._parse_time_controls(args)
parse_time_controls(args) == parse_time_controls_from(args, 1, NoControls)

\* ChessBoard.turn
ChessBoard_turn(b) == IF b.turn THEN "w" ELSE "b"

\* The time limit from the remaining clock: base_time / 30.0 + increment
\* between 0.1 and 30.0 seconds.  The increment is time_controls.get(key, 0),
\* which is None when the command gave none, the key being in the
\* dictionary: None / 1000.0 raises TypeError.
clock_time_limit(base_time, increment) ==
    IF increment = Nothing THEN [raised |-> TRUE, value |-> 0]
    ELSE [raised |-> FALSE,
          value |-> Max(MinTimeLimit, Min(base_time + TicksPerMs * increment[1], MaxTimeLimit))]

\* AdvancedUCIEngine._calculate_time_limit(time_controls): the time limit in
\* ticks, or raised
calculate_time_limit(controls, turn) ==
    IF Truthy(controls.movetime)
    THEN [raised |-> FALSE, value |-> TicksPerMs * controls.movetime[1]]
    ELSE IF turn = "w" /\ Truthy(controls.wtime)
    THEN clock_time_limit(controls.wtime[1], controls.winc)
    ELSE IF turn = "b" /\ Truthy(controls.btime)
    THEN clock_time_limit(controls.btime[1], controls.binc)
    ELSE [raised |-> FALSE, value |-> DefaultTimeLimit]

\* A line print() writes: its first word, for "bestmove" the move and the
\* thread that wrote it (0 for the main thread), and the number of lines of
\* input read when it was written
Output(u, text, move, thread) ==
    [text |-> text, move |-> move, thread |-> thread, read |-> Len(u.stdin)]

\* The program as a handler sees it: the AdvancedUCIEngine object u with its
\* board (the chess.Board of self.board) and the depth of its chess_engine
World(u, b, d) == [uci |-> u, board |-> b, depth |-> d]

\* No board yet
NoBoard == [none |-> TRUE]

\* threading.Thread(target=self._search_move, args=(time_controls,)), started
\* by the line of input number line.  pc is "started", then "searching" from
\* the moment get_best_move has taken board._board until the search returns,
\* then "done"; searched is the chess.Board taken, shared tells that it still
\* is the chess.Board of self.board, raced that another thread has used it
\* during the search.
SearchThread(time_controls, line) ==
    [time_controls |-> time_controls, line |-> line, pc |-> "started",
     turn |-> None, time_limit |-> Nothing, raised |-> FALSE,
     searched |-> NoBoard, search_depth |-> 0, shared |-> FALSE, raced |-> FALSE]

\* thread.is_alive()
is_alive(thread) == thread.pc # "done"

\* self.board or self.board._board is assigned a new object: no thread
\* searches the board of self.board any more
replaced(threads) == [i \in 1 .. Len(threads) |-> [threads[i] EXCEPT !.shared = FALSE]]

\* The chess.Board of self.board is used: the searches running on it race
accessed(threads) ==
    [i \in 1 .. Len(threads) |->
        IF threads[i].pc = "searching" /\ threads[i].shared
        THEN [threads[i] EXCEPT !.raced = TRUE] ELSE threads[i]]

\* AdvancedUCIEngine._send_uci_info()
send_uci_info(w) ==
    [w EXCEPT !.uci.stdout = @ \o <<Output(w.uci, "id name ChessBot Advanced", NoneStr, 0),
                                    Output(w.uci, "id author Florin Romulescu", NoneStr, 0),
                                    Output(w.uci, "option name Depth type spin default 3 min 1 max 10", NoneStr, 0),
                                    Output(w.uci, "option name Debug type check default false", NoneStr, 0),
                                    Output(w.uci, "option name MultiPV type spin default 1 min 1 max 1", NoneStr, 0),
                                    Output(w.uci, "uciok", NoneStr, 0)>>]

\* AdvancedUCIEngine._send_ready()
send_ready(w) == [w EXCEPT !.uci.stdout = Append(@, Output(w.uci, "readyok", NoneStr, 0))]

\* AdvancedUCIEngine._handle_setoption(args)
handle_setoption(w, args) ==
    IF Len(args) < 4 \/ args[1] # kw_name \/ args[3] # kw_value THEN w
    ELSE IF args[2] = kw_option_Depth
    THEN IF ParseInt(args[4]).ok
         THEN [w EXCEPT !.depth = set_depth(ParseInt(args[4]).value)] ELSE w
    ELSE IF args[2] = kw_option_Debug
    THEN [w EXCEPT !.uci.debug = (lower(args[4]) = kw_true)]
    ELSE w

\* chess.STARTING_FEN, the position of ChessBoard()
STARTING_FEN ==
    <<<<"r", "n", "b", "q", "k", "b", "n", "r", "/", "p", "p", "p", "p", "p", "p", "p", "p", "/", "8", "/", "8", "/", "8", "/", "8", "/", "P", "P", "P", "P", "P", "P", "P", "P", "/", "R", "N", "B", "Q", "K", "B", "N", "R">>, <<"w">>, <<"K", "Q", "k", "q">>, <<"-">>, <<"0">>, <<"1">>>>

\* The moves of a position command: the loop ends at the first move that
\* make_move refuses
RECURSIVE make_moves_until_refused(_, _)
make_moves_until_refused(b, moves) ==
    IF moves = <<>> \/ ~make_move(b, Head(moves)).value THEN b
    ELSE make_moves_until_refused(make_move(b, Head(moves)).board, Tail(moves))

\* The moves of a position command made one after the other on the board
RECURSIVE make_moves(_, _)
make_moves(b, moves) ==
    IF moves = <<>> THEN b ELSE make_moves(make_move(b, Head(moves)).board, Tail(moves))

\* AdvancedUCIEngine._handle_newgame()
handle_newgame(w) ==
    [w EXCEPT !.board = Board(STARTING_FEN),
              !.uci.threads = replaced(@),
              !.uci.search_stopped = FALSE]

\* AdvancedUCIEngine._handle_position(args).  "startpos" and an accepted FEN
\* give self.board a new chess.Board, on which the moves are made; after a
\* rejected FEN the moves are made on the board there was.
handle_position(w, args) ==
    IF args = <<>> THEN w
    ELSE IF args[1] = kw_startpos
    THEN [w EXCEPT !.board = IF Len(args) > 1 /\ args[2] = kw_moves
                             THEN make_moves(Board(STARTING_FEN), SubSeq(args, 3, Len(args)))
                             ELSE Board(STARTING_FEN),
                   !.uci.threads = replaced(@)]
    ELSE IF args[1] = kw_fen
    THEN IF Len(args) < 2 THEN w
         ELSE LET with_moves == Len(args) > 7 /\ args[8] = kw_moves
                  moved(b) == IF with_moves THEN make_moves(b, SubSeq(args, 9, Len(args)))
                              ELSE b
                  fen_set(r) ==
                      [w EXCEPT !.board = moved(r.board),
                                !.uci.threads = IF r.value THEN replaced(@)
                                                ELSE IF with_moves /\ Len(args) > 8
                                                THEN accessed(@) ELSE @]
              IN  fen_set(set_fen(w.board, SubSeq(args, 2, Min(7, Len(args)))))
    ELSE w

\* AdvancedUCIEngine._handle_go(args)
handle_go(w, args) ==
    [w EXCEPT !.uci.search_stopped = FALSE,
              !.uci.threads = Append(@, SearchThread(parse_time_controls(args),
                                                     Len(w.uci.stdin))),
              !.uci.current_search_thread = Len(w.uci.threads) + 1]

\* AdvancedUCIEngine._handle_stop(): the main thread then waits in
\* join(timeout=1.0) when the thread of the last go is alive
handle_stop(w) ==
    [w EXCEPT !.uci.search_stopped = TRUE,
              !.uci.main = IF /\ w.uci.current_search_thread # 0
                              /\ is_alive(w.uci.threads[w.uci.current_search_thread])
                           THEN "join" ELSE @]

\* AdvancedUCIEngine._handle_quit()
handle_quit(w) == [w EXCEPT !.uci.search_stopped = TRUE, !.uci.running = FALSE]

\* AdvancedUCIEngine._handle_debug(args)
handle_debug(w, args) ==
    IF args # <<>> /\ lower(args[1]) = kw_on THEN [w EXCEPT !.uci.debug = TRUE]
    ELSE IF args # <<>> /\ lower(args[1]) = kw_off THEN [w EXCEPT !.uci.debug = FALSE]
    ELSE w

\* AdvancedUCIEngine._handle_command(command), parts being command.split()
handle_command(w, parts) ==
    IF parts = <<>> THEN w
    ELSE LET cmd == lower(parts[1])
             args == Tail(parts)
         IN  CASE cmd = kw_uci -> send_uci_info(w)
               [] cmd = kw_isready -> send_ready(w)
               [] cmd = kw_setoption -> handle_setoption(w, args)
               [] cmd = kw_ucinewgame -> handle_newgame(w)
               [] cmd = kw_position -> handle_position(w, args)
               [] cmd = kw_go -> handle_go(w, args)
               [] cmd = kw_stop -> handle_stop(w)
               [] cmd = kw_quit -> handle_quit(w)
               [] cmd = kw_debug -> handle_debug(w, args)
               [] OTHER -> w

\* Lines of input, each as command.split() gives it
\* "position fen k7/8/8/8/8/8/1r6/K7 w - - 0 1": a position with White to move and one legal move
PositionLine ==
    <<<<"p", "o", "s", "i", "t", "i", "o", "n">>, <<"f", "e", "n">>, <<"k", "7", "/", "8", "/", "8", "/", "8", "/", "8", "/", "8", "/", "1", "r", "6", "/", "K", "7">>, <<"w">>, <<"-">>, <<"-">>, <<"0">>, <<"1">>>>
\* "position fen k7/8/1Q6/8/8/8/8/K7 b - - 0 1": a position with Black to move and no legal move
StalematePositionLine ==
    <<<<"p", "o", "s", "i", "t", "i", "o", "n">>, <<"f", "e", "n">>, <<"k", "7", "/", "8", "/", "1", "Q", "6", "/", "8", "/", "8", "/", "8", "/", "8", "/", "K", "7">>, <<"b">>, <<"-">>, <<"-">>, <<"0">>, <<"1">>>>
\* "position fen k7/8/8/8/8/8/1r6/K7 w - - 0 x moves a1b2": a FEN that is rejected, with a move
RejectedPositionLine ==
    <<<<"p", "o", "s", "i", "t", "i", "o", "n">>, <<"f", "e", "n">>, <<"k", "7", "/", "8", "/", "8", "/", "8", "/", "8", "/", "8", "/", "1", "r", "6", "/", "K", "7">>, <<"w">>, <<"-">>, <<"-">>, <<"0">>, <<"x">>, <<"m", "o", "v", "e", "s">>, <<"a", "1", "b", "2">>>>
\* "go"
GoLine ==
    <<<<"g", "o">>>>
\* "go infinite"
GoInfiniteLine ==
    <<<<"g", "o">>, <<"i", "n", "f", "i", "n", "i", "t", "e">>>>
\* "go wtime 30000": the remaining clock without increment
GoClockLine ==
    <<<<"g", "o">>, <<"w", "t", "i", "m", "e">>, <<"3", "0", "0", "0", "0">>>>
\* "go wtime 30000 winc 1000": the remaining clock with increment
GoClockIncrementLine ==
    <<<<"g", "o">>, <<"w", "t", "i", "m", "e">>, <<"3", "0", "0", "0", "0">>, <<"w", "i", "n", "c">>, <<"1", "0", "0", "0">>>>
\* "go depth 2"
GoDepthLine ==
    <<<<"g", "o">>, <<"d", "e", "p", "t", "h">>, <<"2">>>>
\* "stop"
StopLine ==
    <<<<"s", "t", "o", "p">>>>
\* "quit"
QuitLine ==
    <<<<"q", "u", "i", "t">>>>
\* "setoption name Depth value 1"
SetDepthLine ==
    <<<<"s", "e", "t", "o", "p", "t", "i", "o", "n">>, <<"n", "a", "m", "e">>, <<"D", "e", "p", "t", "h">>, <<"v", "a", "l", "u", "e">>, <<"1">>>>
\* "isready"
IsReadyLine ==
    <<<<"i", "s", "r", "e", "a", "d", "y">>>>

UciLines ==
    {PositionLine, StalematePositionLine, RejectedPositionLine, GoLine,
     GoInfiniteLine, GoClockLine, GoClockIncrementLine, GoDepthLine,
     StopLine, QuitLine, SetDepthLine, IsReadyLine}

\* _search_move up to the moment the search has the board: the time limit
\* (a TypeError ends the thread), the depth of a go depth command, and the
\* chess.Board of self.board taken by get_best_move.  A search already
\* running on that chess.Board and this one race.
search_move_begin(w, i) ==
    LET thread == w.uci.threads[i]
        turn == ChessBoard_turn(w.board)
        racing == \E j \in 1 .. Len(w.uci.threads) :
                     w.uci.threads[j].pc = "searching" /\ w.uci.threads[j].shared
        begun(limit, d) ==
            IF limit.raised
            THEN [w EXCEPT !.uci.threads[i] =
                     [thread EXCEPT !.pc = "done", !.turn = turn, !.raised = TRUE]]
            ELSE [w EXCEPT !.depth = d,
                           !.uci.threads =
                               [accessed(@) EXCEPT ![i] =
                                   [thread EXCEPT !.pc = "searching", !.turn = turn,
                                                  !.time_limit =
                                                      IF thread.time_controls.infinite
                                                      THEN Nothing ELSE Some(limit.value),
                                                  !.searched = w.board,
                                                  !.search_depth = d,
                                                  !.shared = TRUE,
                                                  !.raced = racing]]]
    IN  begun(calculate_time_limit(thread.time_controls, turn),
              IF Truthy(thread.time_controls.depth)
              THEN set_depth(thread.time_controls.depth[1]) ELSE w.depth)

\* What get_move_with_time_limit can return to the thread: the result of the
\* search on the board taken, with the board as the search leaves it; for a
\* search that raced, any legal move of the board taken, None or an
\* exception, the board being as the other thread left it
search_results(w, i) ==
    LET thread == w.uci.threads[i]
    IN  IF thread.raced
        THEN {[raised |-> FALSE, move |-> m, board |-> w.board] :
                 m \in Range(ChessBoard_legal_moves(thread.searched)) \cup {NoneStr}}
             \cup {[raised |-> TRUE, move |-> NoneStr, board |-> w.board]}
        ELSE {[raised |-> FALSE, move |-> r.move,
               board |-> IF thread.shared THEN r.board ELSE w.board] :
                 r \in get_move_with_time_limit(thread.searched, thread.search_depth)}

\* _search_move from the return of get_move_with_time_limit on: the bestmove
\* line, unless self.search_stopped is set
search_move_end(w, i, result) ==
    LET ended == [w EXCEPT !.board = result.board,
                           !.uci.threads[i].pc = "done",
                           !.uci.threads[i].raised = result.raised]
    IN  IF result.raised \/ w.uci.search_stopped THEN ended
        ELSE [ended EXCEPT !.uci.stdout =
                 Append(@, Output(w.uci, "bestmove",
                                  IF result.move # NoneStr THEN result.move
                                  ELSE <<"0", "0", "0", "0">>, i))]

-----------------------------------------------------------------------------
(* SpecUci: an AdvancedUCIEngine reading lines while its search threads run *)

\* Lines of input read
MaxLines == 3

\* AdvancedUCIEngine(): self.board = ChessBoard(), self.chess_engine =
\* ChessEngine(depth=3); main is where the main thread is: "init" before
\* run(), "idle" between two lines, "join" inside join(timeout=1.0), "exited"
\* after the loop
InitUci ==
    /\ board = Board(STARTING_FEN)
    /\ engine = "ChessEngine"
    /\ depth = DefaultDepth
    /\ ret = [op |-> "init"]
    /\ hist = <<>>
    /\ uci = [running |-> FALSE, debug |-> FALSE, search_stopped |-> FALSE,
              current_search_thread |-> 0, threads |-> <<>>,
              stdin |-> <<>>, stdout |-> <<>>, main |-> "init"]

\* The step to the state World(u, b, d) describes
Becomes(w, op) ==
    /\ uci' = w.uci
    /\ board' = w.board
    /\ depth' = w.depth
    /\ ret' = [op |-> op]
    /\ UNCHANGED <<engine, hist>>

\* engine.run() enters its loop
Run ==
    /\ uci.main = "init"
    /\ Becomes(World([uci EXCEPT !.running = TRUE, !.main = "idle"], board, depth), "run")

\* input() gives a line and _handle_command handles it; the loop ends when
\* self.running is no longer set.  A search is asked for after a position
\* has been set, not in the starting position.
ReadLine ==
    /\ uci.main = "idle"
    /\ uci.running
    /\ Len(uci.stdin) < MaxLines
    /\ \E line \in UciLines :
         /\ lower(line[1]) = kw_go => board.pieces # Board(STARTING_FEN).pieces
         /\ LET handled(w) ==
                    Becomes([w EXCEPT !.uci.main = IF w.uci.running THEN @ ELSE "exited"],
                            "line")
            IN  handled(handle_command(
                    World([uci EXCEPT !.stdin = Append(@, line)], board, depth), line))

\* input() raises EOFError: the loop ends
EndOfInput ==
    /\ uci.main = "idle"
    /\ uci.running
    /\ Becomes(World([uci EXCEPT !.main = "exited"], board, depth), "eof")

\* join(timeout=1.0) returns, the thread having ended or the second passed
JoinReturns ==
    /\ uci.main = "join"
    /\ Becomes(World([uci EXCEPT !.main = "idle"], board, depth), "join")

\* A search thread runs up to its search
SearchBegins ==
    \E i \in 1 .. Len(uci.threads) :
        /\ uci.threads[i].pc = "started"
        /\ Becomes(search_move_begin(World(uci, board, depth), i), "search")

\* The search of a thread returns and the thread ends
SearchEnds ==
    \E i \in 1 .. Len(uci.threads) :
        /\ uci.threads[i].pc = "searching"
        /\ \E result \in search_results(World(uci, board, depth), i) :
             Becomes(search_move_end(World(uci, board, depth), i, result), "bestmove")

NextUci == Run \/ ReadLine \/ EndOfInput \/ JoinReturns \/ SearchBegins \/ SearchEnds

SpecUci == InitUci /\ [][NextUci]_vars

-----------------------------------------------------------------------------
(* AdvancedUCIEngine: the claims                                            *)

\* The bestmove lines the thread i has written
bestmoves_of(i) ==
    {k \in 1 .. Len(uci.stdout) : uci.stdout[k].text = "bestmove" /\ uci.stdout[k].thread = i}

\* The words that stop a search
StopWords == {kw_stop, kw_quit}

\* C16: a go command is answered by a bestmove line, also when a stop was
\* handled while its search was running: once its search has returned
\* (undisturbed by another thread, and without an exception), the thread has
\* written one bestmove line, with a legal move of the position searched, or
\* with 0000 when that position has no legal move.
C16_GoIsAnswered ==
    \A i \in 1 .. Len(uci.threads) :
        LET thread == uci.threads[i]
        IN  (thread.pc = "done" /\ ~thread.raised /\ ~thread.raced)
            => /\ Cardinality(bestmoves_of(i)) = 1
               /\ \A k \in bestmoves_of(i) :
                    LET moves == Range(ChessBoard_legal_moves(thread.searched))
                    IN  IF moves = {} THEN uci.stdout[k].move = <<"0", "0", "0", "0">>
                        ELSE uci.stdout[k].move \in moves

\* C17: at most one search thread is alive at any time.
C17_OneSearchThread ==
    Cardinality({i \in 1 .. Len(uci.threads) : is_alive(uci.threads[i])}) <= 1

\* C18: while a search runs, no other thread uses the chess.Board it
\* searches: neither the main thread handling a line nor another search.
C18_BoardOwnedBySearch ==
    \A i \in 1 .. Len(uci.threads) : ~uci.threads[i].raced

\* C19: the bestmove line of a go infinite is written only after a stop or
\* quit line that was read after that go.
C19_InfiniteUntilStop ==
    \A k \in 1 .. Len(uci.stdout) :
        (uci.stdout[k].text = "bestmove"
         /\ uci.threads[uci.stdout[k].thread].time_controls.infinite)
        => \E n \in (uci.threads[uci.stdout[k].thread].line + 1) .. uci.stdout[k].read :
              lower(uci.stdin[n][1]) \in StopWords

\* C20: for a go without movetime that gives the clock r > 0 of the side to
\* move, the time limit is r / 30 + increment between 0.1 and 30 seconds,
\* the increment being 0 when the line gives none, and the search goes on
\* (no exception ends the thread before it).
C20_ClockTimeLimit ==
    \A i \in 1 .. Len(uci.threads) :
        LET thread == uci.threads[i]
            controls == thread.time_controls
            clock == IF thread.turn = "w" THEN controls.wtime ELSE controls.btime
            given == IF thread.turn = "w" THEN controls.winc ELSE controls.binc
            increment == IF given = Nothing THEN 0 ELSE given[1]
        IN  (/\ thread.pc # "started"
             /\ ~thread.raced
             /\ ~controls.infinite
             /\ ~Truthy(controls.movetime)
             /\ clock # Nothing
             /\ clock[1] > 0)
            => /\ ~thread.raised
               /\ thread.time_limit =
                    Some(Max(MinTimeLimit, Min(clock[1] + TicksPerMs * increment, MaxTimeLimit)))

-----------------------------------------------------------------------------
(* UCIEngine (uci_engine.py): the UCI front end that searches in the        *)
(* thread that reads the lines, with the MinimaxEngine of EngineFactory     *)

\* The loop of UCIEngine._handle_go over the arguments from the i-th on:
\* every movetime, and every wtime or btime of the side to move, assigns
\* time_limit anew, in the order of the arguments
RECURSIVE UCIEngine_time_limit_from(_, _, _, _)
UCIEngine_time_limit_from(args, i, turn, time_limit) ==
    IF i > Len(args) THEN time_limit
    ELSE IF args[i] = kw_movetime /\ i + 1 <= Len(args)
    THEN UCIEngine_time_limit_from(args, i + 1, turn,
             IF ParseInt(args[i + 1]).ok THEN TicksPerMs * ParseInt(args[i + 1]).value
             ELSE time_limit)
    ELSE IF args[i] = kw_wtime /\ turn = "w" /\ i + 1 <= Len(args)
    THEN UCIEngine_time_limit_from(args, i + 1, turn,
             IF ParseInt(args[i + 1]).ok THEN ParseInt(args[i + 1]).value ELSE time_limit)
    ELSE IF args[i] = kw_btime /\ turn = "b" /\ i + 1 <= Len(args)
    THEN UCIEngine_time_limit_from(args, i + 1, turn,
             IF ParseInt(args[i + 1]).ok THEN ParseInt(args[i + 1]).value ELSE time_limit)
    ELSE UCIEngine_time_limit_from(args, i + 1, turn, time_limit)

\* UCIEngine._handle_go(args): the time limit in ticks, the search, and the
\* bestmove line.  An exception of the search is caught nowhere: it ends
\* run().
UCIEngine_handle_go(w, args) ==
    LET timed == [w EXCEPT !.uci.time_limit =
                     Some(UCIEngine_time_limit_from(args, 1, ChessBoard_turn(w.board),
                                                    DefaultTimeLimit))]
        searched(r) ==
            IF r.raised THEN [timed EXCEPT !.uci.main = "raised"]
            ELSE [timed EXCEPT !.uci.stdout =
                     Append(@, Output(w.uci, "bestmove",
                                      IF r.move # NoneStr THEN r.move
                                      ELSE <<"0", "0", "0", "0">>, 0))]
    IN  searched(MinimaxEngine_get_move_with_time_limit(w.board, w.depth))

\* UCIEngine._send_uci_info()
UCIEngine_send_uci_info(w) ==
    [w EXCEPT !.uci.stdout = @ \o <<Output(w.uci, "id name ChessBot", NoneStr, 0),
                                    Output(w.uci, "id author Florin Romulescu", NoneStr, 0),
                                    Output(w.uci, "option name Depth type spin default 3 min 1 max 10", NoneStr, 0),
                                    Output(w.uci, "option name Debug type check default false", NoneStr, 0),
                                    Output(w.uci, "uciok", NoneStr, 0)>>]

\* UCIEngine._handle_setoption(args)
UCIEngine_handle_setoption(w, args) ==
    IF Len(args) < 4 \/ args[1] # kw_name \/ args[3] # kw_value THEN w
    ELSE IF args[2] = kw_option_Depth
    THEN IF ParseInt(args[4]).ok
         THEN [w EXCEPT !.depth = MinimaxEngine_set_depth(ParseInt(args[4]).value)] ELSE w
    ELSE IF args[2] = kw_option_Debug
    THEN [w EXCEPT !.uci.debug = (lower(args[4]) = kw_true)]
    ELSE w

\* UCIEngine._handle_position(args)
UCIEngine_handle_position(w, args) ==
    IF args = <<>> THEN w
    ELSE IF args[1] = kw_startpos
    THEN [w EXCEPT !.board = IF Len(args) > 1 /\ args[2] = kw_moves
                             THEN make_moves(Board(STARTING_FEN), SubSeq(args, 3, Len(args)))
                             ELSE Board(STARTING_FEN)]
    ELSE IF args[1] = kw_fen
    THEN IF Len(args) < 2 THEN w
         ELSE LET fen_set(r) ==
                      [w EXCEPT !.board = IF Len(args) > 7 /\ args[8] = kw_moves
                                          THEN make_moves(r.board, SubSeq(args, 9, Len(args)))
                                          ELSE r.board]
              IN  fen_set(set_fen(w.board, SubSeq(args, 2, Min(7, Len(args)))))
    ELSE w

\* UCIEngine._handle_command(command), parts being command.split();
\* _handle_stop does nothing
UCIEngine_handle_command(w, parts) ==
    IF parts = <<>> THEN w
    ELSE LET cmd == lower(parts[1])
             args == Tail(parts)
         IN  CASE cmd = kw_uci -> UCIEngine_send_uci_info(w)
               [] cmd = kw_isready -> send_ready(w)
               [] cmd = kw_setoption -> UCIEngine_handle_setoption(w, args)
               [] cmd = kw_ucinewgame -> [w EXCEPT !.board = Board(STARTING_FEN)]
               [] cmd = kw_position -> UCIEngine_handle_position(w, args)
               [] cmd = kw_go -> UCIEngine_handle_go(w, args)
               [] cmd = kw_stop -> w
               [] cmd = kw_quit -> [w EXCEPT !.uci.running = FALSE]
               [] cmd = kw_debug -> handle_debug(w, args)
               [] OTHER -> w

\* More lines of input
\* "position fen k7/8/8/8/8/8/1r6/K7 w - - 0 1 moves a1a2 a1b2 a8a7": a position with moves, the first of them illegal
PositionMovesLine ==
    <<<<"p", "o", "s", "i", "t", "i", "o", "n">>, <<"f", "e", "n">>, <<"k", "7", "/", "8", "/", "8", "/", "8", "/", "8", "/", "8", "/", "1", "r", "6", "/", "K", "7">>, <<"w">>, <<"-">>, <<"-">>, <<"0">>, <<"1">>, <<"m", "o", "v", "e", "s">>, <<"a", "1", "a", "2">>, <<"a", "1", "b", "2">>, <<"a", "8", "a", "7">>>>
\* "position startpos moves e2e4 e2e4 e7e5": the starting position with moves, the second of them illegal
StartposMovesLine ==
    <<<<"p", "o", "s", "i", "t", "i", "o", "n">>, <<"s", "t", "a", "r", "t", "p", "o", "s">>, <<"m", "o", "v", "e", "s">>, <<"e", "2", "e", "4">>, <<"e", "2", "e", "4">>, <<"e", "7", "e", "5">>>>
\* "position fen k7/8/8/8/8/8/1r6/K7 w - - 0 1 moves xyz a1b2": a position with moves, the first of them no UCI move
UnparsableMovesLine ==
    <<<<"p", "o", "s", "i", "t", "i", "o", "n">>, <<"f", "e", "n">>, <<"k", "7", "/", "8", "/", "8", "/", "8", "/", "8", "/", "8", "/", "1", "r", "6", "/", "K", "7">>, <<"w">>, <<"-">>, <<"-">>, <<"0">>, <<"1">>, <<"m", "o", "v", "e", "s">>, <<"x", "y", "z">>, <<"a", "1", "b", "2">>>>
\* "go movetime 2000": a fixed move time
GoMovetimeLine ==
    <<<<"g", "o">>, <<"m", "o", "v", "e", "t", "i", "m", "e">>, <<"2", "0", "0", "0">>>>
\* "go movetime 2000 wtime 30000": a fixed move time, then the remaining clock
GoMovetimeClockLine ==
    <<<<"g", "o">>, <<"m", "o", "v", "e", "t", "i", "m", "e">>, <<"2", "0", "0", "0">>, <<"w", "t", "i", "m", "e">>, <<"3", "0", "0", "0", "0">>>>
\* "go wtime 30000 movetime 2000": the remaining clock, then a fixed move time
GoClockMovetimeLine ==
    <<<<"g", "o">>, <<"w", "t", "i", "m", "e">>, <<"3", "0", "0", "0", "0">>, <<"m", "o", "v", "e", "t", "i", "m", "e">>, <<"2", "0", "0", "0">>>>
\* "setoption name Depth value 0": the depth below the advertised minimum
SetDepthZeroLine ==
    <<<<"s", "e", "t", "o", "p", "t", "i", "o", "n">>, <<"n", "a", "m", "e">>, <<"D", "e", "p", "t", "h">>, <<"v", "a", "l", "u", "e">>, <<"0">>>>
\* "setoption name Depth value 2": a depth within the advertised range
SetDepthTwoLine ==
    <<<<"s", "e", "t", "o", "p", "t", "i", "o", "n">>, <<"n", "a", "m", "e">>, <<"D", "e", "p", "t", "h">>, <<"v", "a", "l", "u", "e">>, <<"2">>>>
\* "uci": the handshake
UciLine ==
    <<<<"u", "c", "i">>>>
\* "ucinewgame": a new game
NewGameLine ==
    <<<<"u", "c", "i", "n", "e", "w", "g", "a", "m", "e">>>>

\* The lines a UCIEngine is given
UCIEngineLines ==
    {PositionLine, RejectedPositionLine, PositionMovesLine, StartposMovesLine,
     UnparsableMovesLine, GoLine, GoMovetimeLine, GoMovetimeClockLine,
     GoClockMovetimeLine, GoDepthLine, SetDepthZeroLine, SetDepthTwoLine,
     StopLine, QuitLine, UciLine, NewGameLine}

-----------------------------------------------------------------------------
(* SpecUciEngine: a UCIEngine reading lines                                 *)

\* A search is asked for in positions with at most this many legal moves
MaxMoves == 3

\* UCIEngine(): self.board = ChessBoard(), self.chess_engine = the
\* MinimaxEngine() of EngineFactory, of depth 3; time_limit is the time limit
\* of the last go, main as in InitUci, "raised" after an exception ended run()
InitUciEngine ==
    /\ board = Board(STARTING_FEN)
    /\ engine = "MinimaxEngine"
    /\ depth = DefaultDepth
    /\ ret = [op |-> "init"]
    /\ hist = <<>>
    /\ uci = [running |-> FALSE, debug |-> FALSE, time_limit |-> Nothing,
              stdin |-> <<>>, stdout |-> <<>>, main |-> "init"]

\* The step of a UCIEngine to the state World(u, b, d) describes, ret
\* keeping the board and the depth there were
UCIEngine_Becomes(w, op) ==
    /\ uci' = w.uci
    /\ board' = w.board
    /\ depth' = w.depth
    /\ ret' = [op |-> op, before |-> board, depth_before |-> depth]
    /\ UNCHANGED <<engine, hist>>

\* engine.run() enters its loop
UCIEngine_Run ==
    /\ uci.main = "init"
    /\ UCIEngine_Becomes(World([uci EXCEPT !.running = TRUE, !.main = "idle"], board, depth),
                         "run")

\* input() gives a line and _handle_command handles it
UCIEngine_ReadLine ==
    /\ uci.main = "idle"
    /\ uci.running
    /\ Len(uci.stdin) < MaxLines
    /\ \E line \in UCIEngineLines :
         /\ lower(line[1]) = kw_go => Len(ChessBoard_legal_moves(board)) <= MaxMoves
         /\ LET handled(w) ==
                    UCIEngine_Becomes(
                        [w EXCEPT !.uci.main = IF @ = "idle" /\ ~w.uci.running
                                               THEN "exited" ELSE @],
                        "line")
            IN  handled(UCIEngine_handle_command(
                    World([uci EXCEPT !.stdin = Append(@, line)], board, depth), line))

\* input() raises EOFError: the loop ends
UCIEngine_EndOfInput ==
    /\ uci.main = "idle"
    /\ uci.running
    /\ UCIEngine_Becomes(World([uci EXCEPT !.main = "exited"], board, depth), "eof")

NextUciEngine == UCIEngine_Run \/ UCIEngine_ReadLine \/ UCIEngine_EndOfInput

SpecUciEngine == InitUciEngine /\ [][NextUciEngine]_vars

-----------------------------------------------------------------------------
(* UCIEngine: the claims                                                    *)

\* The line of input handled last
last_line == uci.stdin[Len(uci.stdin)]

\* C21: a fixed move time has priority over the clocks: after a go command
\* that gives movetime m, m > 0 ms, the time limit is m / 1000 seconds,
\* whatever clocks the command gives as well and in whatever order.
C21_MovetimeHasPriority ==
    (ret.op = "line" /\ lower(last_line[1]) = kw_go)
    => \A j \in 2 .. (Len(last_line) - 1) :
          (/\ last_line[j] = kw_movetime
           /\ ParseInt(last_line[j + 1]).ok
           /\ ParseInt(last_line[j + 1]).value > 0)
          => uci.time_limit = Some(TicksPerMs * ParseInt(last_line[j + 1]).value)

\* C22: a position command whose FEN is malformed leaves the position as it
\* was: no move of its list is made on the previous position.
C22_MalformedFenKeepsPosition ==
    (/\ ret.op = "line"
     /\ lower(last_line[1]) = kw_position
     /\ Len(last_line) >= 3
     /\ last_line[2] = kw_fen
     /\ ~fen_valid(SubSeq(last_line, 3, Min(8, Len(last_line)))))
    => board = ret.before

-----------------------------------------------------------------------------
(* AdvancedUCIEngine: more claims                                           *)

\* The depth the setoption commands among the first k lines of input give
\* the engine, 3 before any
RECURSIVE configured_depth(_)
configured_depth(k) ==
    IF k = 0 THEN DefaultDepth
    ELSE LET line == uci.stdin[k]
         IN  IF /\ lower(line[1]) = kw_setoption
                /\ Len(line) >= 5
                /\ line[2] = kw_name
                /\ line[3] = kw_option_Depth
                /\ line[4] = kw_value
                /\ ParseInt(line[5]).ok
             THEN Max(1, ParseInt(line[5]).value)
             ELSE configured_depth(k - 1)

\* C23: no search state persists across calls: a go command without a depth
\* searches to the depth a setoption command set last (3 when there was
\* none) by the time its search starts, whatever go depth N came before.
C23_GoDepthDoesNotPersist ==
    \A i \in 1 .. Len(uci.threads) :
        (uci.threads[i].pc = "searching" /\ ~Truthy(uci.threads[i].time_controls.depth))
        => \E k \in uci.threads[i].line .. Len(uci.stdin) :
              uci.threads[i].search_depth = configured_depth(k)

-----------------------------------------------------------------------------
(* ChessEngine.minimax: more claims                                         *)

\* The scores minimax gets for the moves of a node, from the i-th on, in the
\* order it examines them, up to the move at which beta <= alpha ends the
\* loop
RECURSIVE examined_scores(_, _, _, _, _, _, _)
examined_scores(b, moves, i, d, alpha, beta, maximizing) ==
    IF i > Len(moves) THEN <<>>
    ELSE LET rest(e, a, bt) ==
                 <<e>> \o (IF bt <= a THEN <<>>
                           ELSE examined_scores(b, moves, i + 1, d, a, bt, maximizing))
             scored(r) ==
                 IF maximizing THEN rest(r.eval, Max(alpha, r.eval), beta)
                 ELSE rest(r.eval, alpha, Min(beta, r.eval))
         IN  scored(minimax(push(b, moves[i]), d - 1, alpha, beta, ~maximizing))

\* The scores of the moves examined by the search ret tells of
ret_scores ==
    examined_scores(ret.before, legal_moves(ret.before), 1, depth, ret.alpha, ret.beta,
                    ret.maximizing)

SearchCalls == {"minimax", "get_best_move", "get_move_with_time_limit"}

\* C25: minimax and get_best_move of ChessEngine leave the board as it was,
\* position and move stack, at every depth and with every window: every
\* push is matched by a pop, also where beta <= alpha ends the loop over the
\* moves.
C25_SearchLeavesBoard ==
    (engine = "ChessEngine" /\ ret.op \in SearchCalls) => board = ret.before

\* A search in which beta <= alpha ended the loop before the last move, and
\* the board is as it was
C25_CutoffPopped ==
    /\ engine = "ChessEngine"
    /\ ret.op = "minimax"
    /\ depth >= 1
    /\ ret.maximizing
    /\ ret.nodes > 1
    /\ Len(examined_scores(ret.before, legal_moves(ret.before), 1, depth, ret.alpha,
                           ret.beta, ret.maximizing)) < Len(legal_moves(ret.before))
    /\ board = ret.before

\* C26: called with depth 0, or on a position that is game-over, minimax
\* returns the evaluation of the position and no move, and examines no
\* move, whatever alpha, beta and maximizing are.
C26_BaseCase ==
    (/\ engine = "ChessEngine"
     /\ ret.op = "minimax"
     /\ (depth = 0 \/ is_game_over(ret.before)))
    => /\ ret.eval = evaluate_position(ret.before).score
       /\ ret.move = NoneMove
       /\ ret.nodes = 1
       /\ board = ret.before

\* minimax called at a depth of at least 1 on a position that is game-over
\* and has legal moves
C26_GameOverWithMoves ==
    /\ engine = "ChessEngine"
    /\ ret.op = "minimax"
    /\ depth >= 1
    /\ is_game_over(ret.before)
    /\ legal_moves(ret.before) # <<>>
    /\ ret.move = NoneMove

-----------------------------------------------------------------------------
(* UCIEngine: more claims                                                   *)

\* C27: the search of MinimaxEngine ends at every depth the engine can hold,
\* a depth of 0 set by setoption among them, so that every go command a
\* UCIEngine has handled has been answered by a bestmove line: no exception
\* has ended run(), and there are as many bestmove lines as go commands.
C27_GoEndsWithBestmove ==
    /\ uci.main # "raised"
    /\ Cardinality({k \in 1 .. Len(uci.stdin) : lower(uci.stdin[k][1]) = kw_go})
         = Cardinality({k \in 1 .. Len(uci.stdout) : uci.stdout[k].text = "bestmove"})

-----------------------------------------------------------------------------
(* AdvancedUCIEngine: the bestmove lines                                    *)

\* The lines of input with the first word word read after the line number
\* from, up to the line number to
lines_between(word, from, to) ==
    {n \in (from + 1) .. to : lower(uci.stdin[n][1]) = word}

\* C28: a search thread whose go command was followed by a stop command
\* writes no bestmove line, also when a further go command was handled
\* before it ended: every bestmove line is written by the thread of the
\* go command read last, no stop having been read since.
C28_BestmoveOfLastGo ==
    \A k \in 1 .. Len(uci.stdout) :
        uci.stdout[k].text = "bestmove"
        => /\ lines_between(kw_stop, uci.threads[uci.stdout[k].thread].line,
                            uci.stdout[k].read) = {}
           /\ lines_between(kw_go, uci.threads[uci.stdout[k].thread].line,
                            uci.stdout[k].read) = {}

-----------------------------------------------------------------------------
(* UCIEngine: the moves of a position command                               *)

\* The board after the moves have been tried one after the other: a string
\* that is no UCI move, or no legal move of the position then current, is
\* passed over
RECURSIVE moves_attempted(_, _)
moves_attempted(b, moves) ==
    IF moves = <<>> THEN b
    ELSE moves_attempted(IF uci_valid(Head(moves)) /\ is_legal(b, from_uci(Head(moves)))
                         THEN board_push(b, from_uci(Head(moves))) ELSE b,
                         Tail(moves))

\* C29: after position startpos moves m1 ... mk, and after position fen f
\* moves m1 ... mk with a FEN f that is accepted, the position is the one
\* reached by trying the moves in order from the position given, an illegal
\* or unparsable move being passed over and the later ones still tried; the
\* command raises nothing and writes nothing.
C29_PositionMoves ==
    (ret.op = "line" /\ lower(last_line[1]) = kw_position /\ Len(last_line) >= 2)
    => /\ uci.main # "raised"
       /\ \A k \in 1 .. Len(uci.stdout) : uci.stdout[k].read # Len(uci.stdin)
       /\ (last_line[2] = kw_startpos /\ Len(last_line) >= 3 /\ last_line[3] = kw_moves)
          => board = moves_attempted(Board(STARTING_FEN), SubSeq(last_line, 4, Len(last_line)))
       /\ (/\ last_line[2] = kw_fen
           /\ Len(last_line) >= 9
           /\ fen_valid(SubSeq(last_line, 3, 8))
           /\ last_line[9] = kw_moves)
          => board = moves_attempted(Board(SubSeq(last_line, 3, 8)),
                                     SubSeq(last_line, 10, Len(last_line)))

\* A position command whose first move is refused and whose second move is
\* made
C29_MoveAfterRefusedMove ==
    /\ ret.op = "line"
    /\ last_line \in {PositionMovesLine, UnparsableMovesLine}
    /\ Len(board.move_stack) >= 1

\* The range "option name Depth type spin default 3 min 1 max 10" advertises
MinDepthOption == 1
MaxDepthOption == 10

\* C30: whatever commands have been handled, the depth the engine holds is
\* within the range advertised for the option Depth.
C30_DepthWithinAdvertisedRange ==
    MinDepthOption <= depth /\ depth <= MaxDepthOption

====
